---------------------------- MODULE Spec2Model ----------------------------
(***************************************************************************)
(* A model of the pulsar backend: the cache-aside entity lookups of        *)
(* BaseModel, the permission-filtering serializer, the effective           *)
(* permission set of a user, and the request pipeline (before-request      *)
(* hook, route guard, handler, response envelope).                         *)
(*                                                                         *)
(* Every subsystem has its own specification over the same variables; a    *)
(* specification leaves the variables of the other subsystems unchanged.   *)
(***************************************************************************)
EXTENDS Integers, Sequences, FiniteSets, TLC

(***************************************************************************)
(* Bounds of the model.                                                    *)
(***************************************************************************)
\* Entity primary keys are 1..MaxId.
MaxId == 1

Ids == 1..MaxId
\* The registered users: the two users of the test data.  The anonymous
\* requester is 0.
Users == {1, 2}

\* flask.g.user is None for a request that carries no valid credential.
Anonymous == 0
Requesters == Users \cup {Anonymous}

(***************************************************************************)
(* Python values.  None and the two container kinds the cache holds are    *)
(* tagged, so that isinstance() and truthiness are decided by the tag.     *)
(***************************************************************************)
None == [t |-> "None"]
Dict(f) == [t |-> "dict", v |-> f]
List(s) == [t |-> "list", v |-> s]
Model(r) == [t |-> "model", v |-> r]

\* isinstance(x, dict)
IsDict(x) == x.t = "dict"
\* bool(x) of a cached value: None, {} and [] are falsy.
Truthy(x) ==
    CASE x.t = "None" -> FALSE
      [] x.t = "dict" -> DOMAIN x.v # {}
      [] x.t = "list" -> Len(x.v) > 0
      [] OTHER -> TRUE

VARIABLES
    users,             \* id -> the user's row: locked, user_class, secondary
    user_classes,      \* primary class name -> its permissions list
    secondary_classes, \* secondary class name -> its permissions list
    users_permissions, \* user id -> {permission: granted} override rows
    config,            \* app.config: LOCKED_ACCOUNT_PERMISSIONS
    cls,        \* the liveness column of the entity class under lookup
    db,         \* the relational store: id -> row of that class, or None
    cache,      \* the cache store: the key formatted with id -> cached value
    cache_keys, \* flask.g.cache_keys: the keys the last operation touched
    ret,        \* the last entity lookup: its arguments and its outcome
    serializer, \* the declared Attributes of the serializer: name -> Attribute
    ser,        \* the last serialization: requester, object, nested, output
    perm_ret,   \* the last read of User.permissions: the user and the list
    sessions,   \* the sessions table: hash -> row or None
    api_keys,   \* the api_keys table: hash -> row or None
    threads,    \* the forums_threads table: id -> row or None
    posts,      \* the forums_posts table: id -> row or None
    resp,       \* the response to the request in flight, None between requests
    chg,        \* the outcome of the permission change in flight, or None
    session_db,    \* the sessions table with its times: id -> Model or None
    session_cache, \* the cache entries of the sessions: id -> Dict or None
    now,        \* the clock, in minutes
    passhash,   \* user id -> the stored password hash
    acct,       \* the session or settings call in flight, or None
    reg_users,  \* the users table of the registrations: the rows in id order
    invites,    \* the invites table: code -> row
    clock,      \* the clock of the registrations, in seconds
    require_invite_code, \* app.config['REQUIRE_INVITE_CODE']
    reg,        \* registrant -> the registration request in flight
    forum_threads, \* the forums_threads table: id -> Model or None
    thread_cache,  \* the cache entries of the threads: id -> Dict or None
    forum_posts,   \* the forums_posts table: id -> Model or None
    post_cache,    \* the cache entries of the posts: id -> Dict or None
    forum_of,      \* forums_threads.forum_id: thread id -> forum id, or 0
    forum_subscriptions,  \* forums_forums_subscriptions: <<user, forum>>
    thread_subscriptions, \* <<user, thread>> -> the number of its rows
    subscription_cache,   \* user -> the cached subscription list, or None
    fres,       \* the forum request in flight
    many_db,    \* the table of the listed class: id -> Model or None
    many_cache, \* the cache entries of its rows: id -> Dict or None
    ids_cache,  \* the value cached at the listing's key: a List, or None
    mret,       \* the get_many call in progress, or None
    profile,    \* user id -> the columns of the user that moderation sets
    mod,        \* the moderation request in flight, or None
    counters,   \* cache key -> the counter stored under it, or None
    inc_ret,    \* the Cache.inc call in flight, or None
    board,      \* the forum tables: class -> id -> row or None
    kv,         \* the cache store of the forums: key -> cached value
    bret,       \* the forum model call in flight, or None
    found_db,    \* the table from_query reads: id -> row or None
    found_cache, \* the cached column mappings of its rows: id -> value
    found_key,   \* the cached winning ids: filter -> id, or None
    qret         \* the from_query or from_id call in flight, or None

permVars == <<users, user_classes, secondary_classes, users_permissions, config>>
entityVars == <<cls, db, cache, cache_keys, ret>>
serVars == <<serializer, ser>>
permCallVars == <<perm_ret>>
reqVars == <<sessions, api_keys, threads, posts, resp>>
chgVars == <<chg>>
sessVars == <<session_db, session_cache, now, passhash, acct>>
regVars == <<reg_users, invites, clock, require_invite_code, reg>>
forumVars ==
    <<forum_threads, thread_cache, forum_posts, post_cache, forum_of,
      forum_subscriptions, thread_subscriptions, subscription_cache, fres>>
manyVars == <<many_db, many_cache, ids_cache, mret>>
modVars == <<profile, mod>>
counterVars == <<counters, inc_ret>>
boardVars == <<board, kv, bret>>
queryVars == <<found_db, found_cache, found_key, qret>>

\* What an operation of one subsystem leaves alone: the variables of the
\* other subsystems.
OutsideEntity ==
    UNCHANGED <<serVars, permCallVars, reqVars, chgVars, sessVars,
                regVars,
                forumVars,
                manyVars,
                modVars,
                counterVars,
                boardVars,
                queryVars>>
OutsideSerialize ==
    UNCHANGED <<entityVars, permCallVars, reqVars, chgVars, sessVars,
                regVars,
                forumVars,
                manyVars,
                modVars,
                counterVars,
                boardVars,
                queryVars>>
OutsidePermissions ==
    UNCHANGED <<entityVars, serVars, reqVars, chgVars, sessVars,
                regVars,
                forumVars,
                manyVars,
                modVars,
                counterVars,
                boardVars,
                queryVars>>
OutsideRequest ==
    UNCHANGED <<entityVars, serVars, permCallVars, chgVars, sessVars,
                regVars,
                forumVars,
                manyVars,
                modVars,
                counterVars,
                boardVars,
                queryVars>>
OutsideChange ==
    UNCHANGED <<entityVars, serVars, permCallVars, reqVars, sessVars,
                regVars,
                forumVars,
                manyVars,
                modVars,
                counterVars,
                boardVars,
                queryVars>>
OutsideRegister ==
    UNCHANGED <<entityVars, serVars, permCallVars, reqVars, chgVars,
                sessVars, permVars,
                forumVars,
                manyVars,
                modVars,
                counterVars,
                boardVars,
                queryVars>>
OutsideForum ==
    UNCHANGED <<entityVars, serVars, permCallVars, reqVars, chgVars,
                sessVars, regVars,
                manyVars,
                modVars,
                counterVars,
                boardVars,
                queryVars>>
OutsideMany ==
    UNCHANGED <<entityVars, serVars, permCallVars, reqVars, chgVars, sessVars, regVars, forumVars,
                modVars,
                counterVars,
                boardVars,
                queryVars>>
OutsideModerate ==
    UNCHANGED <<entityVars, serVars, permCallVars, reqVars, chgVars, sessVars, regVars, forumVars, manyVars,
                counterVars,
                boardVars,
                queryVars>>
OutsideCounter ==
    UNCHANGED <<entityVars, serVars, permCallVars, reqVars, chgVars, sessVars, regVars, forumVars, manyVars, modVars,
                boardVars,
                queryVars>>
OutsideBoard ==
    UNCHANGED <<entityVars, serVars, permCallVars, reqVars, chgVars, sessVars, regVars, forumVars, manyVars, modVars, counterVars,
                queryVars>>
OutsideQuery ==
    UNCHANGED <<entityVars, serVars, permCallVars, reqVars, chgVars, sessVars, regVars, forumVars, manyVars, modVars, counterVars, boardVars>>
OutsideSession ==
    UNCHANGED <<entityVars, serVars, permCallVars, reqVars, chgVars,
                regVars,
                forumVars,
                manyVars,
                modVars,
                counterVars,
                boardVars,
                queryVars>>

(***************************************************************************)
(* Users and permissions (pulsar.users.models, outside this source tree;   *)
(* modelled from the specification and the tests).                         *)
(***************************************************************************)
\* The permissions a locked account keeps.
LockedPermissions == <<"view_staff_pm", "send_staff_pm", "resolve_staff_pm">>

RECURSIVE SetToList(_)
\* list(set): the members of S, each once.
SetToList(S) ==
    IF S = {} THEN <<>>
    ELSE LET x == CHOOSE y \in S : TRUE IN <<x>> \o SetToList(S \ {x})

\* set(list)
ListToSet(s) == {s[i] : i \in DOMAIN s}

\* The permissions of the user's primary and secondary classes.
ClassPermissions(u) ==
    ListToSet(user_classes[users[u].user_class])
        \cup UNION {ListToSet(secondary_classes[sc]) : sc \in users[u].secondary}

\* The override rows of the user with the given granted value.
Overrides(u, granted) ==
    {p \in DOMAIN users_permissions[u] : users_permissions[u][p] = granted}

\* A permissions list that appends the grants to the class permissions and
\* neither deduplicates nor applies the revokes.
permissions_concat(u) ==
    IF users[u].locked
    THEN config.locked_account_permissions
    ELSE user_classes[users[u].user_class]
            \o SetToList(Overrides(u, TRUE))

\* A permissions list that ignores the locked flag.
permissions_unlocked(u) ==
    SetToList((ClassPermissions(u) \cup Overrides(u, TRUE)) \ Overrides(u, FALSE))

\* User.permissions: the effective permission list.
permissions(u) ==
    IF users[u].locked
    THEN config.locked_account_permissions
    ELSE SetToList((ClassPermissions(u) \cup Overrides(u, TRUE))
                        \ Overrides(u, FALSE))

\* User.has_permission
has_permission(u, perm) == perm \in ListToSet(permissions(u))

\* The permission lists a class is given in the permissions specification,
\* one of them naming a permission twice.
ClassLists ==
    {<<>>, <<"sample_a", "sample_b">>, <<"sample_b", "sample_c", "sample_b">>}

\* The permissions that have override rows in the permissions specification.
OverrideNames == {"sample_a", "sample_b", "sample_d"}

\* The override rows of a user: at most one row per permission.
OverrideRows ==
    UNION {[S -> BOOLEAN] : S \in SUBSET OverrideNames}

\* app.config['LOCKED_ACCOUNT_PERMISSIONS']: the default, or a configured
\* override.
LockedConfigs == {LockedPermissions, <<"view_users">>}

\* A read of user.permissions.
GetPermissions(u) ==
    /\ perm_ret = None
    /\ perm_ret' = [t |-> "permissions", user |-> u, list |-> permissions(u)]
    /\ UNCHANGED permVars
    /\ OutsidePermissions

\* The request that read the permissions ends.
EndPermissions ==
    /\ perm_ret # None
    /\ perm_ret' = None
    /\ UNCHANGED permVars
    /\ OutsidePermissions

NextPermissions ==
    \/ \E u \in Users : GetPermissions(u)
    \/ EndPermissions

(***************************************************************************)
(* Entities (src/pulsar/base_model.py, src/pulsar/cache.py).               *)
(***************************************************************************)
\* The columns from_id reads to decide whether a row is dead.
LivenessColumns == {"deleted", "revoked", "expired"}

\* cls.__table__.columns.keys() of an entity class with liveness column c.
Columns(c) == {"id", "user_id", c}

\* A row of the class: a mapping from its columns to their values.
Row(c, id, owner, dead) ==
    [col \in Columns(c) |->
        IF col = "id" THEN id ELSE IF col = "user_id" THEN owner ELSE dead]

\* getattr(model, name, False)
getattr(model, name) == IF name \in DOMAIN model THEN model[name] ELSE FALSE

\* Mappings cached under another column set: one written before the user_id
\* column existed, one written while a since-dropped column existed.
DropColumn(row, col) == [k \in DOMAIN row \ {col} |-> row[k]]
AddColumn(row, col) == [k \in DOMAIN row \cup {col} |->
                            IF k = col THEN 0 ELSE row[k]]

\* Cache.cache_model: stores every declared column of the model at the
\* model's own cache key; does nothing for None.
cache_model(c, obj) ==
    IF obj.t = "model"
    THEN [c EXCEPT ![obj.v["id"]] =
            Dict([col \in Columns(cls) |-> getattr(obj.v, col)])]
    ELSE c

\* A _valid_data that accepts any mapping holding at least the columns.
valid_data_superset(data) ==
    IsDict(data) /\ Columns(cls) \subseteq DOMAIN data.v

\* BaseModel._valid_data
valid_data(data) == IsDict(data) /\ DOMAIN data.v = Columns(cls)

\* query.first() of cls.query.filter(cls.id == id): db[id] is None or
\* Model(row).
query_first(d, id) == d[id]

\* BaseModel.from_cache(key, query): the object returned, the cache as the
\* call leaves it, and the keys it deleted.  key is the class's cache key
\* formatted with id; has_query tells whether a query was supplied.
from_cache(c, d, id, has_query) ==
    LET data == c[id]
        usable == Truthy(data) /\ IsDict(data)
        evict == usable /\ ~valid_data(data)
        c1 == IF evict THEN [c EXCEPT ![id] = None] ELSE c
        obj == query_first(d, id)
    IN  IF usable /\ valid_data(data)
        THEN [obj |-> Model(data.v), cache |-> c, deleted |-> {}]
        ELSE IF has_query
        THEN [obj |-> obj, cache |-> cache_model(c1, obj),
              deleted |-> IF evict THEN {id} ELSE {}]
        ELSE [obj |-> None, cache |-> c1,
              deleted |-> IF evict THEN {id} ELSE {}]

\* belongs_to_user as the owned entity classes override it: the row's user
\* is the requester.  (BaseModel's default answers False for every row.)
belongs_to_user(model, u) == u # Anonymous /\ getattr(model, "user_id") = u

\* A liveness test that forgets the expired column.
is_dead_no_expired(model) ==
    getattr(model, "deleted") \/ getattr(model, "revoked")

\* The liveness test of from_id: one of the three flags is set.
is_dead(model) ==
    getattr(model, "deleted") \/ getattr(model, "revoked")
        \/ getattr(model, "expired")

\* What from_id does when it has nothing to return: raises _404Exception
\* with the tag and the id when a tag was passed, returns None otherwise.
NotFound(id, e404) ==
    IF e404 # ""
    THEN [kind |-> "_404Exception", obj |-> None, msg |-> <<e404, id>>]
    ELSE [kind |-> "return", obj |-> None, msg |-> <<>>]

Return(model) == [kind |-> "return", obj |-> model, msg |-> <<>>]

\* flask.g.user.has_permission(asrt) raises AttributeError when flask.g.user
\* is None.
Raise(exc) == [kind |-> exc, obj |-> None, msg |-> <<>>]

\* BaseModel.from_id: the outcome (the model returned, None, or the
\* exception raised) and the cache as the call leaves it.  asrt is "False",
\* "True" (ownership only) or a permission name; e404 is "" or the tag.
from_id(c, d, id, include_dead, e404, asrt, u) ==
    LET fc == from_cache(c, d, id, TRUE)
        model == fc.obj
        outcome ==
            IF model.t = "model" /\ (include_dead \/ ~is_dead(model.v))
            THEN IF asrt = "False" \/ belongs_to_user(model.v, u)
                 THEN Return(model)
                 ELSE IF u = Anonymous
                 THEN Raise("AttributeError")
                 ELSE IF has_permission(u, asrt)
                 THEN Return(model)
                 ELSE NotFound(id, e404)
            ELSE NotFound(id, e404)
    IN  [out |-> outcome, loaded |-> model, cache |-> fc.cache,
         deleted |-> fc.deleted]

\* The permission passed as asrt in the lookups of the model.
AccessPermission == "view_sessions_others"
AsrtValues == {"False", "True", AccessPermission}
TagValues == {"", "Entity"}

NoCall ==
    [op |-> "none", id |-> 0, include_dead |-> FALSE, e404 |-> "",
     asrt |-> "False", user |-> Anonymous, has_query |-> FALSE,
     before |-> None, stored |-> None, loaded |-> None,
     kind |-> "return", obj |-> None, msg |-> <<>>]

\* BaseModel.new: inserts the row, commits, and caches it.
New(i, owner) ==
    /\ ret = NoCall
    /\ db[i] = None
    /\ LET model == Model(Row(cls, i, owner, FALSE))
       IN  /\ db' = [db EXCEPT ![i] = model]
           /\ cache' = cache_model(cache, model)
    /\ cache_keys' = [delete |-> {}, set |-> {i}]
    /\ ret' = NoCall
    /\ UNCHANGED <<cls, permVars>>
    /\ OutsideEntity

\* A committed update of the liveness column that does not touch the cache
\* (thread.deleted = True; UPDATE sessions SET expired = 't').
SetLiveness(i, dead) ==
    /\ ret = NoCall
    /\ db[i] # None
    /\ db[i].v[cls] # dead
    /\ db' = [db EXCEPT ![i] = Model([db[i].v EXCEPT ![cls] = dead])]
    /\ cache_keys' = [delete |-> {}, set |-> {}]
    /\ ret' = NoCall
    /\ UNCHANGED <<cls, cache, permVars>>
    /\ OutsideEntity

\* BaseModel.clear_cache (and the expiry of a key's timeout).
ClearCache(i) ==
    /\ ret = NoCall
    /\ cache[i] # None
    /\ cache' = [cache EXCEPT ![i] = None]
    /\ cache_keys' = [delete |-> {i}, set |-> {}]
    /\ ret' = NoCall
    /\ UNCHANGED <<cls, db, permVars>>
    /\ OutsideEntity

\* The table's columns change while a mapping of the old columns is still
\* cached: seen from the current schema the entry lacks a column, or holds
\* one that no longer exists.
SchemaChange(i, lacks) ==
    /\ ret = NoCall
    /\ Truthy(cache[i]) /\ valid_data(cache[i])
    /\ cache' = [cache EXCEPT ![i] =
                    IF lacks THEN Dict(DropColumn(cache[i].v, "user_id"))
                    ELSE Dict(AddColumn(cache[i].v, "legacy"))]
    /\ cache_keys' = [delete |-> {}, set |-> {}]
    /\ ret' = NoCall
    /\ UNCHANGED <<cls, db, permVars>>
    /\ OutsideEntity

\* An id list cached under the key of the entity: Forum caches the forum
\* ids of category id at 'forums_categories_{id}', ForumCategory's own key.
SetIdList(i) ==
    /\ ret = NoCall
    /\ cache[i] = None
    /\ cache' = [cache EXCEPT ![i] = List(<<i>>)]
    /\ cache_keys' = [delete |-> {}, set |-> {i}]
    /\ ret' = NoCall
    /\ UNCHANGED <<cls, db, permVars>>
    /\ OutsideEntity

\* A call of cls.from_id by requester u.
FromId(i, include_dead, e404, asrt, u) ==
    LET r == from_id(cache, db, i, include_dead, e404, asrt, u)
    IN  /\ ret = NoCall
        /\ cache' = r.cache
        /\ cache_keys' = [delete |-> r.deleted,
                          set |-> {k \in Ids : r.cache[k] # cache[k]
                                                /\ r.cache[k] # None}]
        /\ ret' = [op |-> "from_id", id |-> i, include_dead |-> include_dead,
                   e404 |-> e404, asrt |-> asrt, user |-> u,
                   has_query |-> TRUE, before |-> cache[i], stored |-> db[i],
                   loaded |-> r.loaded, kind |-> r.out.kind,
                   obj |-> r.out.obj, msg |-> r.out.msg]
        /\ UNCHANGED <<cls, db, permVars>>
    /\ OutsideEntity

\* A call of cls.from_cache with the class's key for id i, with or without
\* the query for that id.
FromCache(i, has_query) ==
    LET r == from_cache(cache, db, i, has_query)
    IN  /\ ret = NoCall
        /\ cache' = r.cache
        /\ cache_keys' = [delete |-> r.deleted,
                          set |-> {k \in Ids : r.cache[k] # cache[k]
                                                /\ r.cache[k] # None}]
        /\ ret' = [op |-> "from_cache", id |-> i, include_dead |-> FALSE,
                   e404 |-> "", asrt |-> "False", user |-> Anonymous,
                   has_query |-> has_query, before |-> cache[i],
                   stored |-> db[i], loaded |-> r.obj, kind |-> "return",
                   obj |-> r.obj, msg |-> <<>>]
        /\ UNCHANGED <<cls, db, permVars>>
    /\ OutsideEntity

\* The request that made the call ends: the next operation starts with a
\* fresh flask.g.
EndCall ==
    /\ ret # NoCall
    /\ ret' = NoCall
    /\ cache_keys' = [delete |-> {}, set |-> {}]
    /\ UNCHANGED <<cls, db, cache, permVars>>
    /\ OutsideEntity

\* The users of the entity specification: user 2 holds AccessPermission
\* by an individual grant, user 1 holds nothing.
EntityUsers ==
    /\ users = [u \in Users |->
                  [locked |-> FALSE, user_class |-> "User", secondary |-> {}]]
    /\ user_classes = [c \in {"User"} |-> <<>>]
    /\ secondary_classes = [c \in {"FLS"} |-> <<>>]
    /\ users_permissions =
          [u \in Users |-> IF u = 2
                           THEN [p \in {AccessPermission} |-> TRUE]
                           ELSE [p \in {} |-> TRUE]]
    /\ config = [locked_account_permissions |-> LockedPermissions]

NextEntity ==
    \/ \E i \in Ids, owner \in Users : New(i, owner)
    \/ \E i \in Ids, dead \in BOOLEAN : SetLiveness(i, dead)
    \/ \E i \in Ids : ClearCache(i)
    \/ \E i \in Ids, lacks \in BOOLEAN : SchemaChange(i, lacks)
    \/ \E i \in Ids : SetIdList(i)
    \/ \E i \in Ids, include_dead \in BOOLEAN, e404 \in TagValues,
          asrt \in AsrtValues, u \in Requesters :
            FromId(i, include_dead, e404, asrt, u)
    \/ \E i \in Ids, has_query \in BOOLEAN : FromCache(i, has_query)
    \/ EndCall

(***************************************************************************)
(* Serialization (src/pulsar/mixins/serializer.py).                        *)
(***************************************************************************)
\* Nested objects are serialized down to this depth below the top object.
MaxNesting == 1

\* The declared fields: a plain column and a relationship to entities of
\* the same class (a user's inviter).
Fields == {"email", "inviter"}

\* The permission the gated fields of the model require.
FieldPermission == "moderate_users"

\* The nested setting of an Attribute and the nested argument of
\* serialize: True, False or a tuple of field names.
NBool(b) == [t |-> "bool", b |-> b, names |-> {}]
NTuple(S) == [t |-> "tuple", b |-> FALSE, names |-> S]
NestedValues == {NBool(TRUE), NBool(FALSE), NTuple({"email"})}

\* Attribute.__init__: permission ("" for None), self_access, nested.
Attributes ==
    [permission : {"", FieldPermission}, self_access : BOOLEAN,
     nested : NestedValues]

Scalar(x) == [t |-> "scalar", v |-> x]

RECURSIVE Objects(_)
\* The objects of nesting depth at most d: the owner, a column, and a
\* relationship holding None, an object or a list of one.
Objects(d) ==
    LET inner == IF d = 0 THEN {}
                 ELSE {Model(o) : o \in Objects(d - 1)}
                        \cup {List(<<Model(o)>>) : o \in Objects(d - 1)}
    IN  [user_id : Users, email : {Scalar("e")}, inviter : {None} \cup inner]

\* A can_serialize that gives self access without asking whom the object
\* belongs to.
can_serialize_any_owner(name, obj, nested, u) ==
    LET attr == serializer[name]
        hasPermission == attr.permission = ""
            \/ (u # Anonymous /\ has_permission(u, attr.permission))
        has_self_access == attr.self_access
        nested_bypass == attr.nested = NBool(TRUE) \/ nested = NBool(FALSE)
        nested_filter == nested.t = "tuple" /\ name \notin nested.names
    IN  (hasPermission \/ has_self_access) /\ nested_bypass /\ ~nested_filter

\* A can_serialize whose nested gate lets a field through when its nested
\* setting is True or its name is in the tuple passed by the caller.
can_serialize_listed(name, obj, nested, u) ==
    LET attr == serializer[name]
        hasPermission == attr.permission = ""
            \/ (u # Anonymous /\ has_permission(u, attr.permission))
        has_self_access == attr.self_access /\ belongs_to_user(obj, u)
        nested_bypass == attr.nested = NBool(TRUE) \/ nested = NBool(FALSE)
        listed == nested.t = "tuple" /\ name \in nested.names
    IN  (hasPermission \/ has_self_access) /\ (nested_bypass \/ listed)

\* Attribute.can_serialize
can_serialize(name, obj, nested, u) ==
    LET attr == serializer[name]
        hasPermission == attr.permission = ""
            \/ (u # Anonymous /\ has_permission(u, attr.permission))
        has_self_access == attr.self_access /\ belongs_to_user(obj, u)
        nested_bypass == attr.nested = NBool(TRUE) \/ nested = NBool(FALSE)
        nested_filter == nested.t = "tuple" /\ name \notin nested.names
    IN  (hasPermission \/ has_self_access) /\ nested_bypass /\ ~nested_filter

RECURSIVE serialize(_, _, _)
RECURSIVE get_value(_, _, _, _)

\* Attribute.get_value: None when the field may not be serialized; a
\* nested object, or a list of them, is serialized with the Attribute's
\* tuple as the nested argument, or with True.
get_value(name, obj, nested, u) ==
    IF ~can_serialize(name, obj, nested, u)
    THEN None
    ELSE LET val == obj[name]
             inner == IF serializer[name].nested.t = "tuple"
                      THEN serializer[name].nested ELSE NBool(TRUE)
         IN  CASE val.t = "model" -> serialize(val.v, inner, u)
               [] val.t = "list" ->
                    List([i \in DOMAIN val.v |-> serialize(val.v[i].v, inner, u)])
               [] OTHER -> val

\* Serializer.serialize: the mapping of every declared field to its value,
\* or None when every value is None.
serialize(obj, nested, u) ==
    LET data == [name \in Fields |-> get_value(name, obj, nested, u)]
    IN  IF \A name \in Fields : data[name] = None THEN None ELSE Dict(data)

\* A call of serialize for requester u.
Serialize(u, obj, nested) ==
    /\ ser = None
    /\ ser' = [t |-> "ser", user |-> u, obj |-> obj, nested |-> nested,
               out |-> serialize(obj, nested, u)]
    /\ UNCHANGED <<serializer, permVars>>
    /\ OutsideSerialize

\* The response is sent.
EndSerialize ==
    /\ ser # None
    /\ ser' = None
    /\ UNCHANGED <<serializer, permVars>>
    /\ OutsideSerialize

\* The users of the serializer specification: user 2 holds FieldPermission
\* by its class, user 1 holds nothing.
SerializerUsers ==
    /\ users = [u \in Users |->
                  [locked |-> FALSE,
                   user_class |-> IF u = 2 THEN "Staff" ELSE "User",
                   secondary |-> {}]]
    /\ user_classes = [c \in {"User", "Staff"} |->
                          IF c = "Staff" THEN <<FieldPermission>> ELSE <<>>]
    /\ secondary_classes = [c \in {"FLS"} |-> <<>>]
    /\ users_permissions = [u \in Users |-> [p \in {} |-> TRUE]]
    /\ config = [locked_account_permissions |-> LockedPermissions]

NextSerialize ==
    \/ \E u \in Requesters, obj \in Objects(MaxNesting),
          nested \in NestedValues : Serialize(u, obj, nested)
    \/ EndSerialize

(***************************************************************************)
(* The request pipeline.  The before-request hook, the route guard and the *)
(* response envelope live in pulsar/__init__.py and pulsar/utils, outside  *)
(* this source tree; they are modelled from the specification and from     *)
(* tests/hooks/test_before_hooks.py.  The handlers are those of            *)
(* src/pulsar/forums/threads.py.                                           *)
(***************************************************************************)
\* The length of the public hash of a session and of an API key.
HashLen == 10

\* The one thread id and the post ids of the request specification.
MaxPost == 1
ThreadIds == {1}
PostIds == 1..MaxPost

\* The session hash of the fixtures, and one that no session has.
SessionHashes == {"abcdefghij"}
CookieHashes == SessionHashes \cup {"notarealkey"}
CsrfTokens == {"csrf-1", "csrf-2"}

\* The API key hash of the fixtures, as its ten characters, and one that no
\* key has.
KeyHash == <<"a", "b", "c", "d", "e", "f", "g", "h", "i", "j">>
OtherKeyHash == <<"a", "b", "c", "d", "e", "f", "g", "n", "o", "t">>
KeyHashes == {KeyHash}
Secret == <<"s", "1">>
WrongSecret == <<"s", "2">>
Secrets == {Secret, WrongSecret}

\* A stored row of any of the tables of this section.
StoredRow(r) == [t |-> "row", v |-> r]

\* The session cookie: absent, or a user id and a session hash.
Cookies ==
    {None} \cup
    {[t |-> "cookie", user_id |-> u, session_hash |-> h] :
        u \in Users, h \in CookieHashes}

\* An Authorization header: its scheme word and the word after it, empty
\* when the header has no second word.
Authorization(scheme, credentials) ==
    [t |-> "header", scheme |-> scheme, credentials |-> credentials]

AuthorizationHeaders ==
    { None,
      Authorization("Token", KeyHash \o Secret),
      Authorization("Token", KeyHash \o WrongSecret),
      Authorization("Token", OtherKeyHash \o Secret),
      Authorization("Token", <<"1", "2", "3">>),
      Authorization("TokenMalformed", <<>>) }

UnsafeMethods == {"POST", "PUT", "DELETE", "PATCH"}

\* The request lines the clients send.
RequestLines ==
    { <<"GET", "/forums/threads/<id>">>,
      <<"DELETE", "/forums/threads/<id>">>,
      <<"POST", "/test_csrf">>,
      <<"GET", "/not/a/real/route">>,
      <<"POST", "/not/a/real/route">> }

\* The salted hash of an API key's secret, and its verification.
generate_password_hash(secret) == [hashed |-> secret]
check_password_hash(keyhashsalt, secret) ==
    keyhashsalt = generate_password_hash(secret)

\* A session lookup that does not compare the cookie's user id.
check_user_session_any_user(cookie) ==
    IF cookie.t = "None" THEN ""
    ELSE IF /\ cookie.session_hash \in DOMAIN sessions
            /\ sessions[cookie.session_hash].t = "row"
            /\ ~sessions[cookie.session_hash].v.expired
         THEN cookie.session_hash
         ELSE ""

\* The hook's session step: the hash of the session to attach, "" for none.
\* The session is looked up by the cookie's hash and attached when it is
\* found, live and owned by the cookie's user id.
check_user_session(cookie) ==
    IF cookie.t = "None" THEN ""
    ELSE IF /\ cookie.session_hash \in DOMAIN sessions
            /\ sessions[cookie.session_hash].t = "row"
            /\ ~sessions[cookie.session_hash].v.expired
            /\ sessions[cookie.session_hash].v.user_id = cookie.user_id
         THEN cookie.session_hash
         ELSE ""

\* The split of "Token <hash><secret>": the first HashLen characters and
\* the remainder.
parse_key(credentials) ==
    [hash |-> SubSeq(credentials, 1,
                     IF Len(credentials) < HashLen THEN Len(credentials)
                     ELSE HashLen),
     secret |-> SubSeq(credentials, HashLen + 1, Len(credentials))]

\* The hook's API key step: the hash of the key to attach, <<>> for none.
check_api_key(authorization) ==
    IF authorization.t = "None" THEN <<>>
    ELSE IF authorization.scheme # "Token" \/ authorization.credentials = <<>>
         THEN <<>>
    ELSE LET key == parse_key(authorization.credentials)
         IN  IF /\ key.hash \in DOMAIN api_keys
                /\ api_keys[key.hash].t = "row"
                /\ ~api_keys[key.hash].v.revoked
                /\ check_password_hash(api_keys[key.hash].v.keyhashsalt,
                                       key.secret)
             THEN key.hash
             ELSE <<>>

\* A CSRF check that lets a request without a token through.
check_csrf_optional(user_session, method, csrf_token) ==
    \/ user_session = ""
    \/ method \notin UnsafeMethods
    \/ csrf_token = ""
    \/ csrf_token = sessions[user_session].v.csrf_token

\* The hook's CSRF step: a request with a session attached and an unsafe
\* method passes only with the session's token in its body ("" is a body
\* without csrf_token).
check_csrf(user_session, method, csrf_token) ==
    \/ user_session = ""
    \/ method \notin UnsafeMethods
    \/ csrf_token = sessions[user_session].v.csrf_token

\* The before-request hook: the identity attached to flask.g and whether
\* the CSRF step passed.  The cookie is examined first, the Authorization
\* header only when no session was attached.
hook(cookie, authorization, method, csrf_token) ==
    LET user_session == check_user_session(cookie)
        api_key == IF user_session = "" THEN check_api_key(authorization)
                   ELSE <<>>
    IN  [user_session |-> user_session,
         api_key |-> api_key,
         user |-> IF user_session # "" THEN sessions[user_session].v.user_id
                  ELSE IF api_key # <<>> THEN api_keys[api_key].v.user_id
                  ELSE Anonymous,
         csrf |-> check_csrf(user_session, method, csrf_token)]

\* The routing table: the endpoint of a request line, "" when none matches.
url_map(method, path) ==
    IF path = "/forums/threads/<id>" /\ method = "GET" THEN "view_thread"
    ELSE IF path = "/forums/threads/<id>" /\ method = "DELETE"
         THEN "delete_thread"
    ELSE IF path = "/test_csrf" /\ method = "POST" THEN "test_csrf"
    ELSE ""

\* The permission an endpoint is guarded with, "" for an unguarded one.
RoutePermission(endpoint) ==
    IF endpoint = "view_thread" THEN "view_forums"
    ELSE IF endpoint = "delete_thread" THEN "modify_forum_threads_advanced"
    ELSE ""

\* The failures a request ends with.
_404Exception(resource) ==
    [status |-> 404, message |-> <<resource, "does not exist.">>]
_403Exception(message) == [status |-> 403, message |-> <<message>>]
Success(message) == [status |-> 200, message |-> message]

\* A guard that only asks for an identified requester.
require_permission_identified(u, permission) ==
    IF u = Anonymous THEN _404Exception("Resource")
    ELSE Success(<<>>)

\* The route guard: the failure it raises, or Success when the handler may
\* run.
require_permission(u, permission) ==
    IF u = Anonymous THEN _404Exception("Resource")
    ELSE IF ~has_permission(u, permission)
         THEN _403Exception(
                "You do not have permission to access this resource.")
    ELSE Success(<<>>)

\* ForumThread.from_pk(id, _404=True, include_dead): the stored row, or the
\* failure raised for a missing or soft-deleted thread.
from_pk(id, include_dead) ==
    IF threads[id].t = "row" /\ (include_dead \/ ~threads[id].v.deleted)
    THEN Success(<<"ForumThread">>)
    ELSE _404Exception("True")

\* view_thread: the thread, soft-deleted ones included for a requester
\* holding modify_forum_threads_advanced.
view_thread(id, u) ==
    [result |-> from_pk(id, has_permission(u, "modify_forum_threads_advanced")),
     threads |-> threads,
     posts |-> posts]

\* delete_thread: the thread and every post under it are marked deleted.
\* The handler does not commit; the writes are those of the request's
\* transaction, taken as committed when the request ends.
delete_thread(id) ==
    LET found == from_pk(id, FALSE)
    IN  IF found.status = 404
        THEN [result |-> found, threads |-> threads, posts |-> posts]
        ELSE [result |-> Success(<<"ForumThread", "has been deleted.">>),
              threads |-> [threads EXCEPT ![id].v.deleted = TRUE],
              posts |-> [p \in PostIds |->
                          IF posts[p].t = "row" /\ posts[p].v.thread_id = id
                          THEN [posts[p] EXCEPT !.v.deleted = TRUE]
                          ELSE posts[p]]]

\* The handler of an endpoint.
Handler(endpoint, id, u) ==
    IF endpoint = "view_thread" THEN view_thread(id, u)
    ELSE IF endpoint = "delete_thread" THEN delete_thread(id)
    ELSE [result |-> Success(<<"completed">>),
          threads |-> threads, posts |-> posts]

\* An envelope that echoes a CSRF token to every identified requester.
wrap_response_identified(result, user_session, u) ==
    IF u # Anonymous
    THEN [status |-> IF result.status = 200 THEN "success" ELSE "failure",
          response |-> result.message,
          csrf_token |-> IF user_session # ""
                         THEN sessions[user_session].v.csrf_token
                         ELSE "csrf-1"]
    ELSE [status |-> IF result.status = 200 THEN "success" ELSE "failure",
          response |-> result.message]

\* The after-request hook: the JSON envelope, with the session's CSRF token
\* when a session is attached.
wrap_response(result, user_session, u) ==
    IF user_session # ""
    THEN [status |-> IF result.status = 200 THEN "success" ELSE "failure",
          response |-> result.message,
          csrf_token |-> sessions[user_session].v.csrf_token]
    ELSE [status |-> IF result.status = 200 THEN "success" ELSE "failure",
          response |-> result.message]

\* One request, from the before-request hook to the response: the steps
\* that ran, the outcome, and the tables as the request leaves them.
Dispatch(cookie, authorization, method, path, id, csrf_token) ==
    LET g == hook(cookie, authorization, method, csrf_token)
        endpoint == url_map(method, path)
        guard == require_permission(g.user, RoutePermission(endpoint))
        same == [threads |-> threads, posts |-> posts]
    IN  IF ~g.csrf
        THEN [g |-> g, endpoint |-> "",
              trace |-> <<"hook", "wrap_response">>,
              result |-> _403Exception("Invalid authorization key."),
              threads |-> threads, posts |-> posts]
        ELSE IF endpoint = ""
        THEN [g |-> g, endpoint |-> endpoint,
              trace |-> <<"hook", "url_map", "wrap_response">>,
              result |-> _404Exception("Resource"),
              threads |-> threads, posts |-> posts]
        ELSE IF RoutePermission(endpoint) # "" /\ guard.status # 200
        THEN [g |-> g, endpoint |-> endpoint,
              trace |-> <<"hook", "url_map", "require_permission",
                          "wrap_response">>,
              result |-> guard,
              threads |-> threads, posts |-> posts]
        ELSE LET h == Handler(endpoint, id, g.user)
             IN  [g |-> g, endpoint |-> endpoint,
                  trace |-> IF RoutePermission(endpoint) # ""
                            THEN <<"hook", "url_map", "require_permission",
                                   "handler", "wrap_response">>
                            ELSE <<"hook", "url_map", "handler",
                                   "wrap_response">>,
                  result |-> h.result,
                  threads |-> h.threads, posts |-> h.posts]

\* A client sends a request and receives the response.
Request(cookie, authorization, method, path, id, csrf_token) ==
    /\ resp = None
    /\ LET d == Dispatch(cookie, authorization, method, path, id, csrf_token)
       IN  /\ threads' = d.threads
           /\ posts' = d.posts
           /\ resp' = [t |-> "response",
                       cookie |-> cookie,
                       authorization |-> authorization,
                       method |-> method, path |-> path, id |-> id,
                       csrf_token |-> csrf_token,
                       user |-> d.g.user,
                       user_session |-> d.g.user_session,
                       api_key |-> d.g.api_key,
                       endpoint |-> d.endpoint,
                       trace |-> d.trace,
                       status_code |-> d.result.status,
                       json |-> wrap_response(d.result, d.g.user_session,
                                              d.g.user),
                       before |-> [threads |-> threads, posts |-> posts]]
    /\ UNCHANGED <<sessions, api_keys, permVars>>
    /\ OutsideRequest

\* The client has read the response.
EndRequest ==
    /\ resp # None
    /\ resp' = None
    /\ UNCHANGED <<sessions, api_keys, threads, posts, permVars>>
    /\ OutsideRequest

\* Session.new: a session of the user under an unused hash, with a fresh
\* CSRF token.
NewSession(h, u, token) ==
    /\ resp = None
    /\ sessions[h] = None
    /\ sessions' = [sessions EXCEPT ![h] =
                      StoredRow([user_id |-> u, csrf_token |-> token,
                                 expired |-> FALSE])]
    /\ UNCHANGED <<api_keys, threads, posts, resp, permVars>>
    /\ OutsideRequest

\* A session is expired.
ExpireSession(h) ==
    /\ resp = None
    /\ sessions[h] # None
    /\ ~sessions[h].v.expired
    /\ sessions' = [sessions EXCEPT ![h].v.expired = TRUE]
    /\ UNCHANGED <<api_keys, threads, posts, resp, permVars>>
    /\ OutsideRequest

\* APIKey.new: a key of the user, its secret stored as a salted hash.
NewAPIKey(k, u) ==
    /\ resp = None
    /\ api_keys[k] = None
    /\ api_keys' = [api_keys EXCEPT ![k] =
                      StoredRow([user_id |-> u,
                                 keyhashsalt |-> generate_password_hash(Secret),
                                 revoked |-> FALSE])]
    /\ UNCHANGED <<sessions, threads, posts, resp, permVars>>
    /\ OutsideRequest

\* An API key is revoked.
RevokeAPIKey(k) ==
    /\ resp = None
    /\ api_keys[k] # None
    /\ ~api_keys[k].v.revoked
    /\ api_keys' = [api_keys EXCEPT ![k].v.revoked = TRUE]
    /\ UNCHANGED <<sessions, threads, posts, resp, permVars>>
    /\ OutsideRequest

\* A thread is created.
NewThread(i) ==
    /\ resp = None
    /\ threads[i] = None
    /\ threads' = [threads EXCEPT ![i] = StoredRow([deleted |-> FALSE])]
    /\ UNCHANGED <<sessions, api_keys, posts, resp, permVars>>
    /\ OutsideRequest

\* A post is created in a live thread.
NewPost(p, i) ==
    /\ resp = None
    /\ posts[p] = None
    /\ threads[i] # None
    /\ ~threads[i].v.deleted
    /\ posts' = [posts EXCEPT ![p] =
                   StoredRow([thread_id |-> i, deleted |-> FALSE])]
    /\ UNCHANGED <<sessions, api_keys, threads, resp, permVars>>
    /\ OutsideRequest

\* User 1 may view the forums; user 2 may also delete threads.
RequestUsers ==
    /\ users = [u \in Users |->
                  [locked |-> FALSE,
                   user_class |-> IF u = 2 THEN "Staff" ELSE "User",
                   secondary |-> {}]]
    /\ user_classes =
          [c \in {"User", "Staff"} |->
              IF c = "Staff"
              THEN <<"view_forums", "modify_forum_threads_advanced">>
              ELSE <<"view_forums">>]
    /\ secondary_classes = [c \in {"FLS"} |-> <<>>]
    /\ users_permissions = [u \in Users |-> [p \in {} |-> TRUE]]
    /\ config = [locked_account_permissions |-> LockedPermissions]

IdleRequest ==
    /\ sessions = [h \in SessionHashes |-> None]
    /\ api_keys = [k \in KeyHashes |-> None]
    /\ threads = [i \in ThreadIds |-> None]
    /\ posts = [p \in PostIds |-> None]
    /\ resp = None

NextRequest ==
    \/ \E h \in SessionHashes, u \in Users, token \in CsrfTokens :
          NewSession(h, u, token)
    \/ \E h \in SessionHashes : ExpireSession(h)
    \/ \E k \in KeyHashes, u \in Users : NewAPIKey(k, u)
    \/ \E k \in KeyHashes : RevokeAPIKey(k)
    \/ \E i \in ThreadIds : NewThread(i)
    \/ \E p \in PostIds, i \in ThreadIds : NewPost(p, i)
    \/ \E cookie \in Cookies, authorization \in AuthorizationHeaders,
          line \in RequestLines, id \in ThreadIds,
          csrf_token \in CsrfTokens \cup {""} :
          Request(cookie, authorization, line[1], line[2], id, csrf_token)
    \/ EndRequest

(***************************************************************************)
(* Permission changes (src/pulsar/permissions/validators.py).  The route   *)
(* that applies the lists check_permissions returns is in                  *)
(* pulsar/permissions, outside this source tree; it is modelled from the   *)
(* specification and from tests/permissions/test_user_edit.py.             *)
(***************************************************************************)
\* The longest change map a request carries.
MaxChanges == 2

\* get_all_permissions(): the recognized permission names.
AllPermissions == {"view_invites", "send_invites", "edit_settings"}

\* The names a change map may carry; "legacy" is not a recognized one.
ChangeNames == AllPermissions \cup {"legacy"}

\* A JSON value of a change map: a boolean, or something that is not one.
PyBool(b) == [t |-> "bool", v |-> b]
PyInt == [t |-> "int", v |-> TRUE]
ActionValues == {PyBool(TRUE), PyBool(FALSE), PyInt}

\* `action is True`.
IsTrue(action) == action.t = "bool" /\ action.v

\* The items of a dict in iteration order: pairs with distinct keys.
Items(n) ==
    {s \in [1..n -> ChangeNames \X ActionValues] :
        \A i, j \in 1..n : i # j => s[i][1] # s[j][1]}

\* The bodies of the "permissions" field: change maps, and a list.
ChangeMaps ==
    {Dict(s) : s \in UNION {Items(n) : n \in 0..MaxChanges}} \cup {List(<<>>)}

Invalid(message) == [kind |-> "Invalid", message |-> message]
Valid == [kind |-> "valid", message |-> <<>>]

\* A validator that refuses every unrecognized name, removals included.
RECURSIVE permissions_dict_strict_items(_)
permissions_dict_strict_items(items) ==
    IF items = <<>> THEN Valid
    ELSE IF Head(items)[2].t # "bool"
         THEN Invalid(<<"permission actions must be booleans">>)
    ELSE IF Head(items)[1] \notin AllPermissions
         THEN Invalid(<<Head(items)[1], "is not a valid permission">>)
    ELSE permissions_dict_strict_items(Tail(items))

permissions_dict_strict(changes) ==
    IF changes.t = "dict" THEN permissions_dict_strict_items(changes.v)
    ELSE Invalid(<<"input value must be a dictionary">>)

\* The loop of permissions_dict: the first offending item raises.
RECURSIVE permissions_dict_items(_)
permissions_dict_items(items) ==
    IF items = <<>> THEN Valid
    ELSE IF Head(items)[2].t # "bool"
         THEN Invalid(<<"permission actions must be booleans">>)
    ELSE IF Head(items)[1] \notin AllPermissions /\ IsTrue(Head(items)[2])
         THEN Invalid(<<Head(items)[1], "is not a valid permission">>)
    ELSE permissions_dict_items(Tail(items))

\* permissions_dict: Valid, or the Invalid it raises.
permissions_dict(changes) ==
    IF changes.t = "dict" THEN permissions_dict_items(changes.v)
    ELSE Invalid(<<"input value must be a dictionary">>)

\* The lists check_permissions builds.
NoLists ==
    [add |-> <<>>, ungrant |-> <<>>, delete |-> <<>>,
     errors_add |-> <<>>, errors_delete |-> <<>>]

\* One iteration of the loop of check_permissions.
check_permissions_step(acc, perm, active, uc_permissions, user_permissions) ==
    IF IsTrue(active)
    THEN LET revoked == perm \in DOMAIN user_permissions
                            /\ user_permissions[perm] = FALSE
             delete == IF revoked THEN Append(acc.delete, perm) ELSE acc.delete
             add == IF perm \in DOMAIN user_permissions
                    THEN IF revoked THEN Append(acc.add, perm) ELSE acc.add
                    ELSE IF perm \notin ListToSet(uc_permissions)
                         THEN Append(acc.add, perm)
                         ELSE acc.add
         IN  [acc EXCEPT
                !.add = add,
                !.delete = delete,
                !.errors_add =
                    IF perm \notin ListToSet(add \o delete)
                    THEN Append(acc.errors_add, perm) ELSE acc.errors_add]
    ELSE LET delete == IF perm \in DOMAIN user_permissions
                          /\ user_permissions[perm] = TRUE
                       THEN Append(acc.delete, perm) ELSE acc.delete
             ungrant == IF perm \in ListToSet(uc_permissions)
                        THEN Append(acc.ungrant, perm) ELSE acc.ungrant
         IN  [acc EXCEPT
                !.delete = delete,
                !.ungrant = ungrant,
                !.errors_delete =
                    IF perm \notin ListToSet(delete \o ungrant)
                    THEN Append(acc.errors_delete, perm)
                    ELSE acc.errors_delete]

RECURSIVE check_permissions_loop(_, _, _, _)
check_permissions_loop(acc, items, uc_permissions, user_permissions) ==
    IF items = <<>> THEN acc
    ELSE check_permissions_loop(
            check_permissions_step(acc, Head(items)[1], Head(items)[2],
                                   uc_permissions, user_permissions),
            Tail(items), uc_permissions, user_permissions)

\* A check that returns its lists and leaves the errors to the caller.
check_permissions_lenient(u, changes) ==
    LET acc == check_permissions_loop(NoLists, changes.v,
                    user_classes[users[u].user_class], users_permissions[u])
    IN  [kind |-> "return",
         add |-> acc.add, ungrant |-> acc.ungrant, delete |-> acc.delete,
         errors_add |-> acc.errors_add, errors_delete |-> acc.errors_delete]

\* A check that gives up at the first permission it cannot add, or else at
\* the first it cannot delete, and reports that one alone.
check_permissions_first_error(u, changes) ==
    LET acc == check_permissions_loop(NoLists, changes.v,
                    user_classes[users[u].user_class], users_permissions[u])
    IN  IF acc.errors_add # <<>> \/ acc.errors_delete # <<>>
        THEN [kind |-> "APIException",
              add |-> <<>>, ungrant |-> <<>>, delete |-> <<>>,
              errors_add |-> IF acc.errors_add # <<>>
                             THEN <<Head(acc.errors_add)>> ELSE <<>>,
              errors_delete |-> IF acc.errors_add # <<>>
                                THEN <<>> ELSE <<Head(acc.errors_delete)>>]
        ELSE [kind |-> "return",
              add |-> acc.add, ungrant |-> acc.ungrant, delete |-> acc.delete,
              errors_add |-> <<>>, errors_delete |-> <<>>]

\* A check that lets a grant through when the class already implies it.
check_permissions_regrant(u, changes) ==
    LET acc == check_permissions_loop(NoLists, changes.v,
                    <<>>, users_permissions[u])
    IN  IF acc.errors_add # <<>> \/ acc.errors_delete # <<>>
        THEN [kind |-> "APIException",
              add |-> <<>>, ungrant |-> <<>>, delete |-> <<>>,
              errors_add |-> acc.errors_add,
              errors_delete |-> acc.errors_delete]
        ELSE [kind |-> "return",
              add |-> acc.add, ungrant |-> acc.ungrant, delete |-> acc.delete,
              errors_add |-> <<>>, errors_delete |-> <<>>]

\* check_permissions: the three lists, or the APIException that names the
\* permissions that could not be added and those that could not be deleted.
check_permissions(u, changes) ==
    LET acc == check_permissions_loop(NoLists, changes.v,
                    user_classes[users[u].user_class], users_permissions[u])
    IN  IF acc.errors_add # <<>> \/ acc.errors_delete # <<>>
        THEN [kind |-> "APIException",
              add |-> <<>>, ungrant |-> <<>>, delete |-> <<>>,
              errors_add |-> acc.errors_add,
              errors_delete |-> acc.errors_delete]
        ELSE [kind |-> "return",
              add |-> acc.add, ungrant |-> acc.ungrant, delete |-> acc.delete,
              errors_add |-> <<>>, errors_delete |-> <<>>]

\* The override rows after the delete list is removed.
DeleteRows(rows, delete) ==
    [p \in DOMAIN rows \ ListToSet(delete) |-> rows[p]]

\* The row inserts collide with a row that is still there: the primary key
\* of users_permissions is (user_id, permission).
IntegrityConflict(rows, add, ungrant) ==
    \E p \in ListToSet(add) \cup ListToSet(ungrant) : p \in DOMAIN rows

\* The override rows after a grant row per add entry and a revoke row per
\* ungrant entry are inserted.
InsertRows(rows, add, ungrant) ==
    [p \in DOMAIN rows \cup ListToSet(add) \cup ListToSet(ungrant) |->
        IF p \in ListToSet(add) THEN TRUE
        ELSE IF p \in ListToSet(ungrant) THEN FALSE
        ELSE rows[p]]

\* alter_permissions: the rows of the user after the three lists are
\* applied in one transaction, and whether the inserts collided (the
\* transaction is then rolled back).
alter_permissions(rows, add, ungrant, delete) ==
    LET kept == DeleteRows(rows, delete)
    IN  IF IntegrityConflict(kept, add, ungrant)
        THEN [kind |-> "IntegrityError", rows |-> rows]
        ELSE [kind |-> "success", rows |-> InsertRows(kept, add, ungrant)]

\* PUT /permissions/user/<u>: the body is validated, checked against the
\* user and applied.
ChangePermissions(u, body) ==
    /\ chg = None
    /\ LET valid == permissions_dict(body)
           checked == check_permissions(u, body)
           altered == alter_permissions(users_permissions[u], checked.add,
                                        checked.ungrant, checked.delete)
           before == [rows |-> users_permissions[u],
                      permissions |-> permissions(u)]
       IN  IF valid.kind # "valid"
           THEN /\ chg' = [t |-> "change", user |-> u, body |-> body,
                           kind |-> "Invalid", message |-> valid.message,
                           checked |-> None, before |-> before]
                /\ UNCHANGED users_permissions
           ELSE IF checked.kind # "return"
           THEN /\ chg' = [t |-> "change", user |-> u, body |-> body,
                           kind |-> "APIException", message |-> <<>>,
                           checked |-> checked, before |-> before]
                /\ UNCHANGED users_permissions
           ELSE /\ chg' = [t |-> "change", user |-> u, body |-> body,
                           kind |-> altered.kind, message |-> <<>>,
                           checked |-> checked, before |-> before]
                /\ users_permissions' =
                        [users_permissions EXCEPT ![u] = altered.rows]
    /\ UNCHANGED <<users, user_classes, secondary_classes, config>>
    /\ OutsideChange

\* The response to the change request is delivered.
EndChange ==
    /\ chg # None
    /\ chg' = None
    /\ UNCHANGED permVars
    /\ OutsideChange

\* The class of user 1 holds view_invites and the unrecognized legacy; the
\* secondary class FLS holds edit_settings.
ChangeUsers ==
    /\ \E locked \in BOOLEAN, sec \in SUBSET {"FLS"} :
          users = [u \in Users |->
                    IF u = 1
                    THEN [locked |-> locked, user_class |-> "User",
                          secondary |-> sec]
                    ELSE [locked |-> FALSE, user_class |-> "User",
                          secondary |-> {}]]
    /\ user_classes = [c \in {"User"} |-> <<"view_invites", "legacy">>]
    /\ secondary_classes = [c \in {"FLS"} |-> <<"edit_settings">>]
    /\ \E rows \in UNION {[S -> BOOLEAN] : S \in SUBSET ChangeNames} :
          users_permissions =
            [u \in Users |-> IF u = 1 THEN rows ELSE [p \in {} |-> TRUE]]
    /\ config = [locked_account_permissions |-> LockedPermissions]

NextChange ==
    \/ \E body \in ChangeMaps : ChangePermissions(1, body)
    \/ EndChange

(***************************************************************************)
(* Sessions (pulsar.auth.models.Session, outside this source tree; it is   *)
(* modelled from the specification and from tests/auth/                    *)
(* test_model_session.py) on top of BaseModel.from_id and                  *)
(* Cache.cache_model, and the settings route                               *)
(* (src/pulsar/users/settings.py).                                         *)
(***************************************************************************)
\* The longest run of random ids Session.new is handed.
MaxDraws == 3

\* The idle window of a session that is not persistent, in minutes.
IdleWindow == 30

\* The instants the clock shows, in minutes: the start, the last minute of
\* the idle window of a session used at the start, and the minute after.
Instants == {0, IdleWindow, IdleWindow + 1}

\* The ids secrets.token_hex draws from.
SessionIds == {"abcdefghij", "1234567890", "cdefghijkl"}

\* The draws Session.new is handed, in order.
Draws == UNION {[1..n -> SessionIds] : n \in 1..MaxDraws}

\* The columns of the sessions table the model follows.
SessionColumns == {"id", "user_id", "expired", "persistent", "last_used"}

SessionRow(id, u, expired, persistent, last_used) ==
    [id |-> id, user_id |-> u, expired |-> expired,
     persistent |-> persistent, last_used |-> last_used]

\* Cache.cache_model for a session: every column under the session's key.
session_cache_model(c, obj) ==
    IF obj.t = "model" THEN [c EXCEPT ![obj.v.id] = Dict(obj.v)] ELSE c

\* BaseModel.from_cache for Session with the query by id: the object and
\* the cache as the call leaves it.
session_from_cache(c, d, id) ==
    LET data == c[id]
        usable == Truthy(data) /\ IsDict(data)
        valid == usable /\ DOMAIN data.v = SessionColumns
        c1 == IF usable /\ ~valid THEN [c EXCEPT ![id] = None] ELSE c
    IN  IF valid
        THEN [obj |-> Model(data.v), cache |-> c]
        ELSE [obj |-> d[id], cache |-> session_cache_model(c1, d[id])]

\* Session.from_id(id, include_dead): BaseModel.from_id without _404 and
\* asrt.
session_from_id(c, d, id, include_dead) ==
    LET fc == session_from_cache(c, d, id)
    IN  [obj |-> IF fc.obj.t = "model"
                    /\ (include_dead \/ ~fc.obj.v.expired)
                 THEN fc.obj ELSE None,
         cache |-> fc.cache]

\* An expiry rule that lets idle time expire persistent sessions too.
is_expired_idle(session, t) ==
    session.expired \/ t - session.last_used > IdleWindow

\* Session.is_expired() at instant t.
is_expired(session, t) ==
    \/ session.expired
    \/ ~session.persistent /\ t - session.last_used > IdleWindow

\* The ids of the user's sessions.
SessionsOf(d, u) == {h \in SessionIds : d[h] # None /\ d[h].v.user_id = u}

\* An expire-all that updates the table and leaves the cache as it is.
expire_all_of_user_uncached(c, d, u) ==
    [db |-> [h \in SessionIds |->
                IF h \in SessionsOf(d, u)
                THEN Model([d[h].v EXCEPT !.expired = TRUE]) ELSE d[h]],
     cache |-> c]

\* Session.expire_all_of_user(user_id): the flag is set on every session of
\* the user and the cache entry of each of them is invalidated.
expire_all_of_user(c, d, u) ==
    [db |-> [h \in SessionIds |->
                IF h \in SessionsOf(d, u)
                THEN Model([d[h].v EXCEPT !.expired = TRUE]) ELSE d[h]],
     cache |-> [h \in SessionIds |->
                IF h \in SessionsOf(d, u) THEN None ELSE c[h]]]

\* A choice of id that takes the first draw as it comes.
new_session_id_first(d, draws) == Head(draws)

RECURSIVE new_session_id(_, _)
\* The id Session.new settles on: the first draw no row has; "" while every
\* draw so far collided.
new_session_id(d, draws) ==
    IF draws = <<>> THEN ""
    ELSE IF d[Head(draws)] = None THEN Head(draws)
    ELSE new_session_id(d, Tail(draws))

NoSessionCall == None

\* Session.new(user_id, ip, user_agent) with the ids token_hex hands out:
\* the row is committed under the id settled on and cached.
SessionNew(u, draws, persistent) ==
    /\ acct = NoSessionCall
    /\ LET id == new_session_id(session_db, draws)
           obj == Model(SessionRow(id, u, FALSE, persistent, now))
       IN  /\ id # ""
           /\ session_db' = [session_db EXCEPT ![id] = obj]
           /\ session_cache' = session_cache_model(session_cache, obj)
           /\ acct' = [t |-> "new", id |-> id, user |-> u, draws |-> draws,
                       result |-> obj,
                       before |-> [db |-> session_db,
                                   cache |-> session_cache]]
    /\ UNCHANGED <<now, passhash, permVars>>
    /\ OutsideSession

\* Session.from_id(id, include_dead)
SessionFromId(id, include_dead) ==
    /\ acct = NoSessionCall
    /\ LET r == session_from_id(session_cache, session_db, id, include_dead)
       IN  /\ session_cache' = r.cache
           /\ acct' = [t |-> "from_id", id |-> id, user |-> Anonymous,
                       draws |-> <<>>, result |-> r.obj,
                       before |-> [db |-> session_db,
                                   cache |-> session_cache]]
    /\ UNCHANGED <<session_db, now, passhash, permVars>>
    /\ OutsideSession

\* Session.from_id(id, include_dead=True).is_expired().  The specification
\* leaves the row as it is when idle time expires it ("computed on read"),
\* test_session_is_expired_not_persistent reads the flag as set afterwards:
\* persist chooses between the two.
IsExpired(id, persist) ==
    /\ acct = NoSessionCall
    /\ LET r == session_from_id(session_cache, session_db, id, TRUE)
           answer == is_expired(r.obj.v, now)
           obj == Model([r.obj.v EXCEPT !.expired = TRUE])
       IN  /\ r.obj # None
           /\ IF answer /\ ~r.obj.v.expired /\ persist
              THEN /\ session_db' = [session_db EXCEPT ![id] = obj]
                   /\ session_cache' = session_cache_model(r.cache, obj)
              ELSE /\ session_cache' = r.cache
                   /\ UNCHANGED session_db
           /\ acct' = [t |-> "is_expired", id |-> id, user |-> Anonymous,
                       draws |-> <<>>, result |-> PyBool(answer),
                       before |-> [db |-> session_db,
                                   cache |-> session_cache,
                                   session |-> r.obj.v]]
    /\ UNCHANGED <<now, passhash, permVars>>
    /\ OutsideSession

\* Session.expire_all_of_user(user_id), committed.
ExpireAllOfUser(u) ==
    /\ acct = NoSessionCall
    /\ LET r == expire_all_of_user(session_cache, session_db, u)
       IN  /\ session_db' = r.db
           /\ session_cache' = r.cache
           /\ acct' = [t |-> "expire_all", id |-> "", user |-> u,
                       draws |-> <<>>, result |-> None,
                       before |-> [db |-> session_db,
                                   cache |-> session_cache]]
    /\ UNCHANGED <<now, passhash, permVars>>
    /\ OutsideSession

\* Time passes.
Advance(t) ==
    /\ acct = NoSessionCall
    /\ t > now
    /\ now' = t
    /\ UNCHANGED <<session_db, session_cache, passhash, acct, permVars>>
    /\ OutsideSession

\* The call returns.
EndSession ==
    /\ acct # NoSessionCall
    /\ acct' = NoSessionCall
    /\ UNCHANGED <<session_db, session_cache, now, passhash, permVars>>
    /\ OutsideSession

\* The sessions of the fixtures: one of user 1 that is not persistent, one
\* of user 2 that is, both last used at the start.
SessionFixtures ==
    [h \in SessionIds |->
        IF h = "abcdefghij"
        THEN Model(SessionRow(h, 1, FALSE, FALSE, 0))
        ELSE IF h = "1234567890"
        THEN Model(SessionRow(h, 2, FALSE, TRUE, 0))
        ELSE None]

NextSession ==
    \/ \E u \in Users, draws \in Draws, persistent \in BOOLEAN :
          SessionNew(u, draws, persistent)
    \/ \E id \in SessionIds, include_dead \in BOOLEAN :
          SessionFromId(id, include_dead)
    \/ \E id \in SessionIds, persist \in BOOLEAN : IsExpired(id, persist)
    \/ \E u \in Users : ExpireAllOfUser(u)
    \/ \E t \in Instants : Advance(t)
    \/ EndSession

\* A str of a request body.
PyStr(s) == [t |-> "str", v |-> s]

\* The passwords of the requests; each passes settings_schema.
Passwords == {"pw-old", "pw-new"}

\* The existing_password and new_password fields of the body: a password,
\* or None for a field the body leaves out.
PasswordFields == {None} \cup {PyStr(p) : p \in Passwords}

\* The user_id of the route: 0 for /users/settings, which has none.
SettingsUserIds == {0} \cup Users

_401Exception(message) == [status |-> 401, message |-> <<message>>]

\* User.check_password(password)
check_password(u, password) ==
    password.t = "str" /\ check_password_hash(passhash[u], password.v)

\* choose_user(user_id, permission): the requester, or the user of the id
\* when the requester holds the permission; 0 when the requester does not.
choose_user(requester, user_id, permission) ==
    IF user_id # 0 /\ user_id # requester
    THEN IF has_permission(requester, permission) THEN user_id ELSE 0
    ELSE requester

\* A handler that does not ask for the existing password.
edit_settings_unchecked(requester, user_id, existing_password, new_password) ==
    LET guard == require_permission(requester, "edit_settings")
        user == choose_user(requester, user_id, "moderate_users")
        same == [passhash |-> passhash, db |-> session_db,
                 cache |-> session_cache]
        expired == expire_all_of_user(session_cache, session_db, user)
    IN  IF guard.status # 200
        THEN [resp |-> guard, user |-> 0] @@ same
        ELSE IF user = 0
        THEN [resp |-> _403Exception(
                "You do not have permission to access this resource."),
              user |-> 0] @@ same
        ELSE IF new_password = None
        THEN [resp |-> Success(<<"Settings updated.">>), user |-> user]
                @@ same
        ELSE IF ~has_permission(requester, "change_password")
        THEN [resp |-> _403Exception(
                "You do not have permission to change this password."),
              user |-> user] @@ same
        ELSE [resp |-> Success(<<"Settings updated.">>), user |-> user,
              passhash |-> [passhash EXCEPT ![user] =
                              generate_password_hash(new_password.v)],
              db |-> expired.db, cache |-> expired.cache]

\* A handler that sets the new password and leaves the sessions alone.
edit_settings_keep_sessions(requester, user_id, existing_password, new_password) ==
    LET guard == require_permission(requester, "edit_settings")
        user == choose_user(requester, user_id, "moderate_users")
        same == [passhash |-> passhash, db |-> session_db,
                 cache |-> session_cache]
    IN  IF guard.status # 200
        THEN [resp |-> guard, user |-> 0] @@ same
        ELSE IF user = 0
        THEN [resp |-> _403Exception(
                "You do not have permission to access this resource."),
              user |-> 0] @@ same
        ELSE IF new_password = None
        THEN [resp |-> Success(<<"Settings updated.">>), user |-> user]
                @@ same
        ELSE IF ~has_permission(requester, "change_password")
        THEN [resp |-> _403Exception(
                "You do not have permission to change this password."),
              user |-> user] @@ same
        ELSE IF ~check_password(user, existing_password)
        THEN [resp |-> _401Exception("Invalid existing password."),
              user |-> user] @@ same
        ELSE [resp |-> Success(<<"Settings updated.">>), user |-> user,
              passhash |-> [passhash EXCEPT ![user] =
                              generate_password_hash(new_password.v)],
              db |-> session_db, cache |-> session_cache]

\* edit_settings: the response, the user it acted on (0 when it chose
\* none), and the password hashes, the sessions table and the session cache
\* as the request leaves them.
edit_settings(requester, user_id, existing_password, new_password) ==
    LET guard == require_permission(requester, "edit_settings")
        user == choose_user(requester, user_id, "moderate_users")
        same == [passhash |-> passhash, db |-> session_db,
                 cache |-> session_cache]
        expired == expire_all_of_user(session_cache, session_db, user)
    IN  IF guard.status # 200
        THEN [resp |-> guard, user |-> 0] @@ same
        ELSE IF user = 0
        THEN [resp |-> _403Exception(
                "You do not have permission to access this resource."),
              user |-> 0] @@ same
        ELSE IF new_password = None
        THEN [resp |-> Success(<<"Settings updated.">>), user |-> user]
                @@ same
        ELSE IF ~has_permission(requester, "change_password")
        THEN [resp |-> _403Exception(
                "You do not have permission to change this password."),
              user |-> user] @@ same
        ELSE IF ~check_password(user, existing_password)
        THEN [resp |-> _401Exception("Invalid existing password."),
              user |-> user] @@ same
        ELSE [resp |-> Success(<<"Settings updated.">>), user |-> user,
              passhash |-> [passhash EXCEPT ![user] =
                              generate_password_hash(new_password.v)],
              db |-> expired.db, cache |-> expired.cache]

\* PUT /users/settings and PUT /users/<user_id>/settings
EditSettings(requester, user_id, existing_password, new_password) ==
    /\ acct = NoSessionCall
    /\ LET r == edit_settings(requester, user_id, existing_password,
                              new_password)
       IN  /\ passhash' = r.passhash
           /\ session_db' = r.db
           /\ session_cache' = r.cache
           /\ acct' = [t |-> "settings", id |-> "", user |-> r.user,
                       draws |-> <<>>, result |-> r.resp,
                       requester |-> requester,
                       existing_password |-> existing_password,
                       new_password |-> new_password,
                       before |-> [db |-> session_db,
                                   cache |-> session_cache,
                                   passhash |-> passhash]]
    /\ UNCHANGED <<now, permVars>>
    /\ OutsideSession

\* The class lists of the members and of the staff.
MemberClassLists ==
    {<<"edit_settings", "change_password">>, <<"edit_settings">>,
     <<"change_password">>}
StaffClassLists ==
    {<<"edit_settings", "change_password", "moderate_users">>,
     <<"edit_settings", "moderate_users">>}

\* User 1 is a member, user 2 is staff.
SettingsUsers ==
    /\ users = [u \in Users |->
                  [locked |-> FALSE,
                   user_class |-> IF u = 2 THEN "Staff" ELSE "User",
                   secondary |-> {}]]
    /\ \E member \in MemberClassLists, staff \in StaffClassLists :
          user_classes = [c \in {"User", "Staff"} |->
                            IF c = "Staff" THEN staff ELSE member]
    /\ secondary_classes = [c \in {"FLS"} |-> <<>>]
    /\ users_permissions = [u \in Users |-> [p \in {} |-> TRUE]]
    /\ config = [locked_account_permissions |-> LockedPermissions]

\* The sessions table of the fixtures, with or without a second session of
\* user 1, whose sessions are live or already expired.
SettingsSessions ==
    {[h \in SessionIds |->
        IF h = "cdefghijkl"
        THEN IF second THEN Model(SessionRow(h, 1, dead, TRUE, 0)) ELSE None
        ELSE SessionFixtures[h]] : second \in BOOLEAN, dead \in BOOLEAN}

NextSettings ==
    \/ \E requester \in Requesters, user_id \in SettingsUserIds,
          existing_password \in PasswordFields,
          new_password \in PasswordFields :
          EditSettings(requester, user_id, existing_password, new_password)
    \/ \E id \in SessionIds, include_dead \in BOOLEAN :
          SessionFromId(id, include_dead)
    \/ EndSession

(***************************************************************************)
(* Registration (src/pulsar/users/views/register.py).  The users and       *)
(* invites tables are pulsar.users.models and pulsar.invites.models,       *)
(* outside this source tree.                                               *)
(***************************************************************************)
\* The last second the clock shows.
MaxClock == 3

\* app.config['INVITE_LIFETIME'], in seconds.
INVITE_LIFETIME == 2

\* The requests in flight at once.
Registrants == {1, 2}

\* The usernames of the requests; each passes registration_schema.
Usernames == {"lights", "bright", "Bright"}

\* str.lower() and func.lower() on the usernames.
lower(username) == IF username = "Bright" THEN "bright" ELSE username

\* The codes of the requests: "" for /register, which has none; no invite
\* has the code "unsent".
InviteCodes == {"code-1", "code-2"}
Codes == InviteCodes \cup {"unsent", ""}

APIException(message) == [status |-> 400, message |-> message]

\* The commit failed on the unique index of users.username and nothing
\* caught it.
IntegrityError == [status |-> 500, message |-> <<"IntegrityError">>]

\* Invite.from_code(code)
from_code(code) == IF code \in DOMAIN invites THEN invites[code] ELSE None

\* An invite check that still takes a code sent INVITE_LIFETIME seconds ago.
validate_invite_code_inclusive(code) ==
    LET invite == from_code(code)
    IN  IF /\ invite # None
           /\ invite.v.invitee_id = 0
           /\ clock - invite.v.time_sent <= INVITE_LIFETIME
        THEN Success(<<>>)
        ELSE IF code # ""
        THEN APIException(<<code, "is not a valid invite code.">>)
        ELSE APIException(<<"An invite code is required for registration.">>)

\* validate_invite_code: Success when it returns, the APIException it
\* raises otherwise.
validate_invite_code(code) ==
    LET invite == from_code(code)
    IN  IF /\ invite # None
           /\ invite.v.invitee_id = 0
           /\ clock - invite.v.time_sent < INVITE_LIFETIME
        THEN Success(<<>>)
        ELSE IF code # ""
        THEN APIException(<<code, "is not a valid invite code.">>)
        ELSE APIException(<<"An invite code is required for registration.">>)

\* The users whose username equals the given one ignoring case.
SameName(rows, username) ==
    {i \in DOMAIN rows : lower(rows[i].username) = lower(username)}

\* validate_username
validate_username(username) ==
    IF SameName(reg_users, username) # {}
    THEN APIException(<<"Another user already has the username", username>>)
    ELSE Success(<<>>)

NotRegistering == [pc |-> "idle"]

\* register up to db.session.add: the invite check when the site requires
\* codes, then the username pre-check.
Validate(p, username, code) ==
    /\ reg[p] = NotRegistering
    /\ LET invited == IF require_invite_code THEN validate_invite_code(code)
                      ELSE Success(<<>>)
           named == validate_username(username)
           failure == IF invited.status # 200 THEN invited ELSE named
       IN  reg' = [reg EXCEPT ![p] =
                    [pc |-> IF failure.status # 200 THEN "done"
                            ELSE "validated",
                     username |-> username, code |-> code,
                     time |-> clock, invited |-> invited,
                     result |-> failure]]
    /\ UNCHANGED <<reg_users, invites, clock, require_invite_code>>
    /\ OutsideRegister

\* register from db.session.commit: the row is inserted unless the unique
\* index on the lowercased username refuses it.
Commit(p) ==
    /\ reg[p].pc = "validated"
    /\ IF SameName(reg_users, reg[p].username) # {}
       THEN /\ reg' = [reg EXCEPT ![p].pc = "done",
                                  ![p].result = IntegrityError]
            /\ UNCHANGED reg_users
       ELSE /\ reg_users' = Append(reg_users,
                                   [username |-> reg[p].username])
            /\ reg' = [reg EXCEPT ![p].pc = "done",
                                  ![p].result =
                                    [status |-> 200,
                                     message |-> <<>>,
                                     id |-> Len(reg_users) + 1]]
    /\ UNCHANGED <<invites, clock, require_invite_code>>
    /\ OutsideRegister

\* The response is delivered.
EndRegister(p) ==
    /\ reg[p].pc = "done"
    /\ reg' = [reg EXCEPT ![p] = NotRegistering]
    /\ UNCHANGED <<reg_users, invites, clock, require_invite_code>>
    /\ OutsideRegister

\* A second passes.
Tick ==
    /\ clock < MaxClock
    /\ clock' = clock + 1
    /\ UNCHANGED <<reg_users, invites, reg, require_invite_code>>
    /\ OutsideRegister

\* The invites of the fixtures: both sent at the start, the second one
\* redeemed by user 1 or not.
RegisterInvites ==
    {[c \in InviteCodes |->
        StoredRow([invitee_id |-> IF c = "code-2" THEN invitee ELSE 0,
                   time_sent |-> 0])] : invitee \in {0, 1}}

NextRegister ==
    \/ \E p \in Registrants, username \in Usernames, code \in Codes :
          Validate(p, username, code)
    \/ \E p \in Registrants : Commit(p)
    \/ \E p \in Registrants : EndRegister(p)
    \/ Tick

(***************************************************************************)
(* Forum threads and their subscriptions (src/pulsar/forums/threads.py).   *)
(* ForumThread and ForumPost are BaseModel classes with the deleted        *)
(* column, looked up with from_id above.  The subscription models and      *)
(* BaseModel.update_many are in pulsar/forums/models.py and                *)
(* pulsar/base_model.py of a later revision, outside this source tree;     *)
(* they are modelled from the specification.  A handler that does not      *)
(* commit leaves its writes to the request's transaction, taken as         *)
(* committed when the request ends.                                        *)
(***************************************************************************)
\* Thread ids are 1..MaxThread, post ids 1..MaxReply.
MaxThread == 2
MaxReply == 3
ForumThreadIds == 1..MaxThread
ForumPostIds == 1..MaxReply
Forums == {1, 2}

\* forums_posts.thread_id of the fixtures: the posts are dealt to the
\* threads in turn, so that thread 1 holds more than one post.
thread_id(p) == ((p - 1) % MaxThread) + 1

\* ForumPost.get_ids_from_thread: the ids of the posts under the thread.
get_ids_from_thread(id) ==
    {p \in ForumPostIds : forum_posts[p] # None /\ thread_id(p) = id}

\* ForumThread.from_pk(id, _404=True)
ForumThread_from_pk(id, u) ==
    from_id(thread_cache, forum_threads, id, FALSE, "ForumThread", "False", u)

\* An update_many that leaves the cache entries of the rows in place.
update_many_cached(c, d, pks) ==
    [db |-> [i \in DOMAIN d |->
                IF i \in pks THEN Model([d[i].v EXCEPT !["deleted"] = TRUE])
                ELSE d[i]],
     cache |-> c]

\* BaseModel.update_many(pks, update={'deleted': True}): one UPDATE of the
\* rows, and the cache keys of the rows are deleted.
update_many(c, d, pks) ==
    [db |-> [i \in DOMAIN d |->
                IF i \in pks THEN Model([d[i].v EXCEPT !["deleted"] = TRUE])
                ELSE d[i]],
     cache |-> [i \in DOMAIN c |-> IF i \in pks THEN None ELSE c[i]]]

\* delete_thread: the tables and caches as the request leaves them.
forums_delete_thread(u, id) ==
    LET guard == require_permission(u, "modify_forum_threads_advanced")
        thread == ForumThread_from_pk(id, u)
        updated == update_many(post_cache, forum_posts,
                               get_ids_from_thread(id))
        same == [threads |-> forum_threads, thread_cache |-> thread_cache,
                 posts |-> forum_posts, post_cache |-> post_cache]
    IN  IF guard.status # 200 THEN [result |-> guard] @@ same
        ELSE IF thread.out.kind # "return"
        THEN [result |-> _404Exception("ForumThread"),
              threads |-> forum_threads, thread_cache |-> thread.cache,
              posts |-> forum_posts, post_cache |-> post_cache]
        ELSE [result |-> Success(<<"ForumThread", "has been deleted.">>),
              threads |-> [forum_threads EXCEPT ![id] =
                            Model([forum_threads[id].v
                                     EXCEPT !["deleted"] = TRUE])],
              thread_cache |-> thread.cache,
              posts |-> updated.db,
              post_cache |-> updated.cache]

\* No forum request is in progress.
NoForumCall == [op |-> "none"]

\* DELETE /forums/threads/<id>
DeleteThread(u, id) ==
    /\ fres = NoForumCall
    /\ LET r == forums_delete_thread(u, id)
       IN  /\ forum_threads' = r.threads
           /\ thread_cache' = r.thread_cache
           /\ forum_posts' = r.posts
           /\ post_cache' = r.post_cache
           /\ fres' = [op |-> "delete_thread", user |-> u, id |-> id,
                       result |-> r.result,
                       under |-> get_ids_from_thread(id)]
    /\ UNCHANGED <<forum_of, forum_subscriptions, thread_subscriptions,
                   subscription_cache, permVars>>
    /\ OutsideForum

\* ForumThread.from_id(id, include_dead) of a later request.
ThreadFromId(id, include_dead) ==
    /\ fres = NoForumCall
    /\ LET r == from_id(thread_cache, forum_threads, id, include_dead, "",
                        "False", Anonymous)
       IN  /\ thread_cache' = r.cache
           /\ fres' = [op |-> "thread_from_id", id |-> id,
                       include_dead |-> include_dead, obj |-> r.out.obj]
    /\ UNCHANGED <<forum_threads, forum_posts, post_cache, forum_of,
                   forum_subscriptions, thread_subscriptions,
                   subscription_cache, permVars>>
    /\ OutsideForum

\* ForumPost.from_id(id, include_dead) of a later request.
PostFromId(id, include_dead) ==
    /\ fres = NoForumCall
    /\ LET r == from_id(post_cache, forum_posts, id, include_dead, "",
                        "False", Anonymous)
       IN  /\ post_cache' = r.cache
           /\ fres' = [op |-> "post_from_id", id |-> id,
                       include_dead |-> include_dead, obj |-> r.out.obj]
    /\ UNCHANGED <<forum_threads, thread_cache, forum_posts, forum_of,
                   forum_subscriptions, thread_subscriptions,
                   subscription_cache, permVars>>
    /\ OutsideForum

\* ForumSubscription.user_ids_from_forum: the users subscribed to the forum.
user_ids_from_forum(f) == {u \in Users : <<u, f>> \in forum_subscriptions}

\* ForumThreadSubscription.clear_cache_keys(user_ids): the cached
\* subscription lists of the users are deleted.
clear_cache_keys(c, user_ids) ==
    [u \in DOMAIN c |-> IF u \in user_ids THEN None ELSE c[u]]

\* Rows of forums_threads_subscriptions are added for the users.
AddRows(rows, user_ids, t) ==
    [k \in DOMAIN rows |->
        IF k[1] \in user_ids /\ k[2] = t THEN rows[k] + 1 ELSE rows[k]]

\* A fan-out that subscribes every user, subscribed to the forum or not.
subscribe_users_to_new_thread_all(t, f) ==
    [rows |-> AddRows(thread_subscriptions, Users, t),
     cache |-> clear_cache_keys(subscription_cache, Users)]

\* subscribe_users_to_new_thread: one row per subscriber of the thread's
\* forum, and the subscribers' cached lists are cleared.
subscribe_users_to_new_thread(t, f) ==
    LET user_ids == user_ids_from_forum(f)
    IN  [rows |-> AddRows(thread_subscriptions, user_ids, t),
         cache |-> clear_cache_keys(subscription_cache, user_ids)]

\* The primary key ForumThread.new is given: the next unused one.
NextThreadId ==
    CHOOSE t \in ForumThreadIds :
        /\ forum_threads[t] = None
        /\ \A s \in ForumThreadIds : s < t => forum_threads[s] # None

\* POST /forums/threads
CreateThread(u, f) ==
    /\ fres = NoForumCall
    /\ \E t \in ForumThreadIds : forum_threads[t] = None
    /\ LET guard == require_permission(u, "create_forum_threads")
           t == NextThreadId
           thread == Model(Row(cls, t, u, FALSE))
           subscribed == subscribe_users_to_new_thread(t, f)
       IN  IF guard.status # 200
           THEN /\ fres' = [op |-> "create_thread", user |-> u, id |-> 0,
                            forum |-> f, result |-> guard,
                            cached |-> subscription_cache]
                /\ UNCHANGED <<forum_threads, thread_cache, forum_of,
                               thread_subscriptions, subscription_cache>>
           ELSE /\ forum_threads' = [forum_threads EXCEPT ![t] = thread]
                /\ thread_cache' = cache_model(thread_cache, thread)
                /\ forum_of' = [forum_of EXCEPT ![t] = f]
                /\ thread_subscriptions' = subscribed.rows
                /\ subscription_cache' = subscribed.cache
                /\ fres' = [op |-> "create_thread", user |-> u, id |-> t,
                            forum |-> f, result |-> Success(<<>>),
                            cached |-> subscription_cache]
    /\ UNCHANGED <<forum_posts, post_cache, forum_subscriptions, permVars>>
    /\ OutsideForum

\* ForumThreadSubscription.from_attrs(user_id, thread_id): whether the row
\* exists.
from_attrs(u, t) == thread_subscriptions[<<u, t>>] > 0

\* An alter_thread_subscription that does not look for the subscription.
alter_thread_subscription_unchecked(u, method, id) ==
    LET guard == require_permission(u, "modify_forum_subscriptions")
        thread == ForumThread_from_pk(id, u)
        same == [rows |-> thread_subscriptions, cache |-> subscription_cache]
    IN  IF guard.status # 200
        THEN [result |-> guard, thread_cache |-> thread_cache] @@ same
        ELSE IF thread.out.kind # "return"
        THEN [result |-> _404Exception("ForumThread"),
              thread_cache |-> thread.cache] @@ same
        ELSE IF method = "POST"
        THEN [result |-> Success(<<"Successfully subscribed to thread">>),
              thread_cache |-> thread.cache,
              rows |-> AddRows(thread_subscriptions, {u}, id),
              cache |-> clear_cache_keys(subscription_cache, {u})]
        ELSE IF thread_subscriptions[<<u, id>>] = 0
        THEN [result |-> Success(<<"Successfully unsubscribed from thread">>),
              thread_cache |-> thread.cache] @@ same
        ELSE [result |-> Success(<<"Successfully unsubscribed from thread">>),
              thread_cache |-> thread.cache,
              rows |-> [thread_subscriptions EXCEPT ![<<u, id>>] = @ - 1],
              cache |-> subscription_cache]

\* alter_thread_subscription: the response, and the subscription rows and
\* the caches as the request leaves them.  ForumThreadSubscription.new
\* inserts the row and clears the user's cached lists.
alter_thread_subscription(u, method, id) ==
    LET guard == require_permission(u, "modify_forum_subscriptions")
        thread == ForumThread_from_pk(id, u)
        subscription == from_attrs(u, id)
        same == [rows |-> thread_subscriptions, cache |-> subscription_cache]
    IN  IF guard.status # 200
        THEN [result |-> guard, thread_cache |-> thread_cache] @@ same
        ELSE IF thread.out.kind # "return"
        THEN [result |-> _404Exception("ForumThread"),
              thread_cache |-> thread.cache] @@ same
        ELSE IF method = "POST"
        THEN IF subscription
             THEN [result |-> APIException(
                                <<"You are already subscribed to thread">>),
                   thread_cache |-> thread.cache] @@ same
             ELSE [result |->
                     Success(<<"Successfully subscribed to thread">>),
                   thread_cache |-> thread.cache,
                   rows |-> AddRows(thread_subscriptions, {u}, id),
                   cache |-> clear_cache_keys(subscription_cache, {u})]
        ELSE IF ~subscription
             THEN [result |-> APIException(
                                <<"You are not subscribed to thread">>),
                   thread_cache |-> thread.cache] @@ same
             ELSE [result |->
                     Success(<<"Successfully unsubscribed from thread">>),
                   thread_cache |-> thread.cache,
                   rows |-> [thread_subscriptions
                                EXCEPT ![<<u, id>>] = @ - 1],
                   cache |-> subscription_cache]

\* POST and DELETE /forums/threads/<thread_id>/subscribe
AlterThreadSubscription(u, method, id) ==
    /\ fres = NoForumCall
    /\ LET r == alter_thread_subscription(u, method, id)
       IN  /\ thread_cache' = r.thread_cache
           /\ thread_subscriptions' = r.rows
           /\ subscription_cache' = r.cache
           /\ fres' = [op |-> "alter_thread_subscription", user |-> u,
                       id |-> id, method |-> method, result |-> r.result,
                       rows |-> thread_subscriptions]
    /\ UNCHANGED <<forum_threads, forum_posts, post_cache, forum_of,
                   forum_subscriptions, permVars>>
    /\ OutsideForum

\* The user's subscription list is read and cached.
ThreadSubscriptionsOfUser(u) ==
    /\ fres = NoForumCall
    /\ subscription_cache[u] = None
    /\ subscription_cache' =
          [subscription_cache EXCEPT ![u] =
              List(SetToList({t \in ForumThreadIds :
                                thread_subscriptions[<<u, t>>] > 0}))]
    /\ UNCHANGED <<forum_threads, thread_cache, forum_posts, post_cache,
                   forum_of, forum_subscriptions, thread_subscriptions,
                   fres, permVars>>
    /\ OutsideForum

\* The response is delivered.
EndForum ==
    /\ fres # NoForumCall
    /\ fres' = NoForumCall
    /\ UNCHANGED <<forum_threads, thread_cache, forum_posts, post_cache,
                   forum_of, forum_subscriptions, thread_subscriptions,
                   subscription_cache, permVars>>
    /\ OutsideForum

\* User 1 may post threads and subscribe; user 2 may also delete threads.
ForumUsers ==
    /\ users = [u \in Users |->
                  [locked |-> FALSE,
                   user_class |-> IF u = 2 THEN "Staff" ELSE "User",
                   secondary |-> {}]]
    /\ user_classes =
          [c \in {"User", "Staff"} |->
              IF c = "Staff"
              THEN <<"create_forum_threads", "modify_forum_subscriptions",
                     "modify_forum_threads_advanced">>
              ELSE <<"create_forum_threads", "modify_forum_subscriptions">>]
    /\ secondary_classes = [c \in {"FLS"} |-> <<>>]
    /\ users_permissions = [u \in Users |-> [p \in {} |-> TRUE]]
    /\ config = [locked_account_permissions |-> LockedPermissions]

NextSubscribe ==
    \/ \E u \in Requesters, f \in Forums : CreateThread(u, f)
    \/ \E u \in Requesters, method \in {"POST", "DELETE"},
          id \in ForumThreadIds : AlterThreadSubscription(u, method, id)
    \/ \E u \in Users : ThreadSubscriptionsOfUser(u)
    \/ EndForum

NextForum ==
    \/ \E u \in Requesters, id \in ForumThreadIds : DeleteThread(u, id)
    \/ \E id \in ForumThreadIds, include_dead \in BOOLEAN :
          ThreadFromId(id, include_dead)
    \/ \E id \in ForumPostIds, include_dead \in BOOLEAN :
          PostFromId(id, include_dead)
    \/ EndForum

(***************************************************************************)
(* Listings (src/pulsar/base_model.py, BaseModel.get_many).                *)
(***************************************************************************)
\* The listed class has the rows 1..MaxEntity: more than the default limit.
MaxEntity == 54
EntityIds == 1..MaxEntity

\* The limit of a paginated listing for which none is passed.
DefaultLimit == 50

\* A Python int.
PyNumber(n) == [t |-> "int", v |-> n]

\* The pages and the limits of the calls (VIEW_FORUM_THREAD_SCHEMA lets
\* page be 0).
Pages == {None, PyNumber(0), PyNumber(1), PyNumber(2)}
Limits == {None, PyNumber(2)}

\* The required_properties of the calls.
RequiredProperties == {<<>>, <<"id", "user_id">>}

Min(a, b) == IF a < b THEN a ELSE b
Max(a, b) == IF a > b THEN a ELSE b

\* ids[start:] of Python: a negative start counts from the end.
Slice(ids, start) ==
    LET n == Len(ids)
        from == IF start >= 0 THEN Min(start, n) ELSE Max(n + start, 0)
    IN  SubSeq(ids, from + 1, n)

\* query.all() of the id query: the ids lo..hi of the table, in id order.
\* The range is halved rather than walked, which keeps the evaluation
\* shallow.
RECURSIVE query_all(_, _, _)
query_all(d, lo, hi) ==
    IF lo > hi THEN <<>>
    ELSE IF lo = hi THEN (IF d[lo] # None THEN <<lo>> ELSE <<>>)
    ELSE query_all(d, lo, (lo + hi) \div 2)
            \o query_all(d, ((lo + hi) \div 2) + 1, hi)

\* bool(getattr(model, prop, False)): a missing property, a flag that is
\* not set and the number 0 are falsy.
TruthyProperty(model, prop) ==
    IF prop \in LivenessColumns THEN getattr(model, prop)
    ELSE prop \in DOMAIN model /\ model[prop] # 0

\* The for-else of get_many: no required property of the model is falsy.
HasRequired(model, required_properties) ==
    \A k \in DOMAIN required_properties :
        TruthyProperty(model.v, required_properties[k])

\* cls.from_id(id, include_dead=include_dead) of the loop.  A lookup reads
\* and writes the cache entry of its own id only, so every lookup of the
\* loop is made against the cache c of the start of the call.
Lookup(c, d, id, include_dead) ==
    from_id(c, d, id, include_dead, "", "False", Anonymous)

\* `limit and len(models) >= limit` with n models collected.
LimitReached(limit, n) == limit # None /\ limit.v # 0 /\ n >= limit.v

\* A loop in which every id looked at counts against the limit.
RECURSIVE get_many_loop_counting(_, _, _, _, _, _, _, _, _)
get_many_loop_counting(ids, lo, hi, n, c, d, required_properties, include_dead, limit) ==
    IF lo > hi THEN [models |-> <<>>, seen |-> hi, full |-> FALSE]
    ELSE IF lo = hi
    THEN LET model == Lookup(c, d, ids[lo], include_dead).out.obj
         IN  [models |-> IF model # None /\ HasRequired(model, required_properties) THEN <<model>> ELSE <<>>,
              seen |-> lo, full |-> LimitReached(limit, lo)]
    ELSE LET left == get_many_loop_counting(ids, lo, (lo + hi) \div 2, n, c, d, required_properties, include_dead, limit)
             right == get_many_loop_counting(ids, ((lo + hi) \div 2) + 1, hi, n, c, d, required_properties, include_dead, limit)
         IN  IF left.full THEN left
             ELSE [models |-> left.models \o right.models,
                   seen |-> right.seen, full |-> right.full]

\* The loop of get_many over ids[lo..hi], n models having been collected
\* before: the models it appends, the index of the last id looked up, and
\* whether it ended at the break.  The ids are taken in order; the range is
\* halved rather than walked, which keeps the evaluation shallow.
RECURSIVE get_many_loop(_, _, _, _, _, _, _, _, _)
get_many_loop(ids, lo, hi, n, c, d, required_properties, include_dead, limit) ==
    IF lo > hi THEN [models |-> <<>>, seen |-> hi, full |-> FALSE]
    ELSE IF lo = hi
    THEN LET model == Lookup(c, d, ids[lo], include_dead).out.obj
         IN  IF model # None /\ HasRequired(model, required_properties)
             THEN [models |-> <<model>>, seen |-> lo,
                   full |-> LimitReached(limit, n + 1)]
             ELSE [models |-> <<>>, seen |-> lo, full |-> FALSE]
    ELSE LET left == get_many_loop(ids, lo, (lo + hi) \div 2, n, c, d, required_properties, include_dead, limit)
             right == get_many_loop(ids, ((lo + hi) \div 2) + 1, hi, n + Len(left.models), c, d, required_properties, include_dead, limit)
         IN  IF left.full THEN left
             ELSE [models |-> left.models \o right.models,
                   seen |-> right.seen, full |-> right.full]

\* The cache after the lookups of the first seen ids.
LookedUp(c, d, ids, seen, include_dead) ==
    [i \in DOMAIN c |->
        IF \E k \in 1..seen : ids[k] = i
        THEN Lookup(c, d, i, include_dead).cache[i]
        ELSE c[i]]

\* BaseModel.get_many: the id list of the key (queried and cached when the
\* key holds none), the slice of the page, and the models of the loop.
get_many(required_properties, include_dead, page, limit) ==
    LET cached == ids_cache
        miss == ~Truthy(cached)
        ids == IF miss THEN query_all(many_db, 1, MaxEntity) ELSE cached.v
        limit1 == IF page # None
                  THEN IF limit # None /\ limit.v # 0 THEN limit
                       ELSE PyNumber(DefaultLimit)
                  ELSE limit
        ids1 == IF page # None
                THEN Slice(ids, (page.v - 1) * limit1.v)
                ELSE ids
        looped == get_many_loop(ids1, 1, Len(ids1), 0, many_cache, many_db,
                                required_properties, include_dead, limit1)
    IN  [models |-> looped.models,
         cache |-> LookedUp(many_cache, many_db, ids1, looped.seen,
                            include_dead),
         ids |-> ids, ids_cache |-> IF miss THEN List(ids) ELSE cached]

\* A listing is requested.
GetMany(required_properties, include_dead, page, limit) ==
    /\ mret = None
    /\ LET r == get_many(required_properties, include_dead, page, limit)
       IN  /\ many_cache' = r.cache
           /\ ids_cache' = r.ids_cache
           /\ mret' = [required_properties |-> required_properties,
                       include_dead |-> include_dead, page |-> page,
                       limit |-> limit, ids |-> r.ids,
                       before |-> many_cache, models |-> r.models]
    /\ UNCHANGED <<many_db, permVars>>
    /\ OutsideMany

\* The listing is returned.
EndMany ==
    /\ mret # None
    /\ mret' = None
    /\ UNCHANGED <<many_db, many_cache, ids_cache, permVars>>
    /\ OutsideMany

\* The table of the fixtures: every row live and owned by user 1, or row 1
\* soft-deleted, row 2 without an owner and row 3 gone.
ManyTables ==
    {[i \in EntityIds |->
        IF mixed /\ i = 1 THEN Model(Row("deleted", i, 1, TRUE))
        ELSE IF mixed /\ i = 2 THEN Model(Row("deleted", i, 0, FALSE))
        ELSE IF mixed /\ i = 3 THEN None
        ELSE Model(Row("deleted", i, 1, FALSE))] : mixed \in BOOLEAN}

\* The row cache of the fixtures: empty, or holding row 1 as it was cached
\* while live.
ManyCaches ==
    {[i \in EntityIds |->
        IF held /\ i = 1 THEN Dict(Row("deleted", i, 1, FALSE)) ELSE None] :
            held \in BOOLEAN}

\* The id list cached at the key: none, or one cached in descending order
\* while every row existed.
IdLists == {None, List([k \in 1..MaxEntity |-> MaxEntity + 1 - k])}

NextMany ==
    \/ \E required_properties \in RequiredProperties,
          include_dead \in BOOLEAN, page \in Pages, limit \in Limits :
          GetMany(required_properties, include_dead, page, limit)
    \/ EndMany

(***************************************************************************)
(* Moderation (src/pulsar/users/moderate.py).                              *)
(***************************************************************************)
\* The largest uploaded, downloaded and invites value of the model.
MaxStat == 1

\* The values the request schema accepts: an e-mail address, a password of
\* the required shape, and an integer from 0 up for each of the counters.
ModerateSchema ==
    [email : {None, PyStr("new@puls.ar")},
     password : {None, PyStr("an-ev3n-be77er-pa$$w0rd")},
     uploaded : {None} \cup {PyNumber(n) : n \in 0..MaxStat},
     downloaded : {None} \cup {PyNumber(n) : n \in 0..MaxStat},
     invites : {None} \cup {PyNumber(n) : n \in 0..MaxStat}]

\* The fields of the schema.
ModerateFields == {"email", "password", "uploaded", "downloaded", "invites"}

\* The user ids of the requests: user 1, and one that no user has.
ModerateUserIds == {1, 3}

\* The columns of a user of the fixtures.
FixtureProfile ==
    [email |-> "lights@puls.ar", passhash |-> generate_password_hash("12345"),
     uploaded |-> 1, downloaded |-> 0, invites |-> 1]

\* bool(value) of a keyword argument: None, 0 and '' are falsy.
TruthyArgument(x) ==
    CASE x.t = "None" -> FALSE
      [] x.t = "int" -> x.v # 0
      [] x.t = "str" -> x.v # ""

\* moderate_user: the response and the users table after the commit.
moderate_user(requester, user_id, data) ==
    LET guard == require_permission(requester, "moderate_users")
        user == profile[user_id]
        user1 == IF TruthyArgument(data.password)
                 THEN [user EXCEPT !.passhash =
                          generate_password_hash(data.password.v)]
                 ELSE user
        user2 == IF TruthyArgument(data.email)
                 THEN [user1 EXCEPT !.email = data.email.v] ELSE user1
        user3 == IF TruthyArgument(data.uploaded)
                 THEN [user2 EXCEPT !.uploaded = data.uploaded.v] ELSE user2
        user4 == IF TruthyArgument(data.downloaded)
                 THEN [user3 EXCEPT !.downloaded = data.downloaded.v]
                 ELSE user3
        user5 == IF TruthyArgument(data.invites)
                 THEN [user4 EXCEPT !.invites = data.invites.v] ELSE user4
    IN  IF guard.status # 200 THEN [result |-> guard, profile |-> profile]
        ELSE IF user_id \notin DOMAIN profile
        THEN [result |-> _404Exception("User"), profile |-> profile]
        ELSE [result |-> Success(<<>>),
              profile |-> [profile EXCEPT ![user_id] = user5]]

\* PUT /users/<user_id>/moderate
ModerateUser(requester, user_id, data) ==
    /\ mod = None
    /\ LET r == moderate_user(requester, user_id, data)
       IN  /\ profile' = r.profile
           /\ mod' = [requester |-> requester, user_id |-> user_id,
                      data |-> data, before |-> profile,
                      result |-> r.result]
    /\ UNCHANGED permVars
    /\ OutsideModerate

\* The response is delivered.
EndModerate ==
    /\ mod # None
    /\ mod' = None
    /\ UNCHANGED <<profile, permVars>>
    /\ OutsideModerate

NextModerate ==
    \/ \E requester \in Requesters, user_id \in ModerateUserIds,
          data \in ModerateSchema : ModerateUser(requester, user_id, data)
    \/ EndModerate

(***************************************************************************)
(* Cache counters (src/pulsar/cache.py).                                   *)
(***************************************************************************)
\* The largest magnitude a counter of the model takes.
MaxCount == 2

\* The keys the callers pass, and key.lower() of each.
IncKeys == {"Hits", "hits", "views"}
lower_key(key) == IF key = "Hits" THEN "hits" ELSE key
CounterKeys == {lower_key(key) : key \in IncKeys}

\* The deltas and the timeouts the callers pass; 0 is the timeout that
\* Cache.set documents as "never expires".
Deltas == {-1, 1, 2}
Timeouts == {None, PyNumber(0), PyNumber(1), PyNumber(2)}

\* A stored counter: its value and its time to live (None: no expiry).
Counter(value, ttl) == [value |-> value, ttl |-> ttl]

\* super().inc(key, delta): the store's increment, which creates an absent
\* key at delta with no expiry and leaves the expiry of a present key alone.
incr(c, key, delta) ==
    IF c[key] = None THEN [c EXCEPT ![key] = Counter(delta, None)]
    ELSE [c EXCEPT ![key].value = @ + delta]

\* Cache.inc: the returned value and the counters after the call.
inc(c, key, delta, timeout) ==
    LET k == lower_key(key)
        c1 == incr(c, k, delta)
        value == c1[k].value
    IN  [value |-> value,
         counters |-> IF TruthyArgument(timeout) /\ value = delta
                      THEN [c1 EXCEPT ![k].ttl = timeout] ELSE c1]

\* cache.inc(key, delta, timeout)
Inc(key, delta, timeout) ==
    /\ inc_ret = None
    /\ LET r == inc(counters, key, delta, timeout)
       IN  /\ r.value \in -MaxCount..MaxCount
           /\ counters' = r.counters
           /\ inc_ret' = [key |-> key, delta |-> delta, timeout |-> timeout,
                          before |-> counters, value |-> r.value]
    /\ UNCHANGED permVars
    /\ OutsideCounter

\* The call returns.
EndInc ==
    /\ inc_ret # None
    /\ inc_ret' = None
    /\ UNCHANGED <<counters, permVars>>
    /\ OutsideCounter

\* A second passes: every expiry comes one closer, and a key whose time
\* is up is gone.
Elapse ==
    /\ inc_ret = None
    /\ \E k \in CounterKeys : counters[k] # None /\ counters[k].ttl # None
    /\ counters' =
          [k \in CounterKeys |->
              IF counters[k] = None \/ counters[k].ttl = None
              THEN counters[k]
              ELSE IF counters[k].ttl.v = 1 THEN None
              ELSE [counters[k] EXCEPT !.ttl = PyNumber(@.v - 1)]]
    /\ UNCHANGED <<inc_ret, permVars>>
    /\ OutsideCounter

NextCounter ==
    \/ \E key \in IncKeys, delta \in Deltas, timeout \in Timeouts :
          Inc(key, delta, timeout)
    \/ EndInc
    \/ Elapse

(***************************************************************************)
(* The forum models (src/pulsar/forums/models.py).                         *)
(***************************************************************************)
\* The largest id of a forum table, and the largest page of a listing.
MaxBoardId == 5
MaxPage == 2

BoardIds == 1..MaxBoardId
BoardPages == 0..MaxPage
BoardLimits == {1, 2}
BoardClasses ==
    {"ForumCategory", "Forum", "ForumThread", "ForumPost",
     "ForumPostEditHistory"}

\* A cache key template: the text before {id} and the text after it.
Template(prefix, suffix) == [prefix |-> prefix, suffix |-> suffix]

\* The cache key attributes the classes define, each with the kind of value
\* stored under it.  A name with two leading underscores and fewer than two
\* trailing ones is stored under its mangled name.
KeyFamilies ==
    {[class |-> "ForumCategory", attr |-> "__cache_key__",
      kind |-> "entity", template |-> Template("forums_categories_", "")],
     [class |-> "Forum", attr |-> "__cache_key__",
      kind |-> "entity", template |-> Template("forums_", "")],
     [class |-> "Forum", attr |-> "__cache_key_last_updated__",
      kind |-> "id", template |-> Template("forums_", "_last_updated")],
     [class |-> "Forum", attr |-> "__cache_key_thread_count__",
      kind |-> "count", template |-> Template("forums_", "_thread_count")],
     [class |-> "Forum", attr |-> "__cache_key_of_category__",
      kind |-> "ids", template |-> Template("forums_categories_", "")],
     [class |-> "ForumThread", attr |-> "__cache_key__",
      kind |-> "entity", template |-> Template("forums_threads_", "")],
     [class |-> "ForumThread", attr |-> "__cache_key_post_count__",
      kind |-> "count",
      template |-> Template("forums_threads_", "_post_count")],
     [class |-> "ForumThread", attr |-> "__cache_key_posts__",
      kind |-> "ids", template |-> Template("forums_threads_", "_posts")],
     [class |-> "ForumThread", attr |-> "__cache_key_of_forum__",
      kind |-> "ids", template |-> Template("forums_threads_forums_", "")],
     [class |-> "ForumThread",
      attr |-> "_ForumThread__cache_key_last_updated",
      kind |-> "time",
      template |-> Template("forums_threads_", "_last_updated")],
     [class |-> "ForumPost", attr |-> "_ForumPost__cache_key",
      kind |-> "unused", template |-> Template("forums_posts_", "")],
     [class |-> "ForumPost", attr |-> "__cache_key_edit_history__",
      kind |-> "ids",
      template |-> Template("forums_posts_", "_edit_history")],
     [class |-> "ForumPostEditHistory", attr |-> "__cache_key__",
      kind |-> "entity",
      template |-> Template("forums_posts_edit_history_", "")]}

\* ForumCategory.__cache_key_all__, which has no {id}.
cache_key_all == "forums_categories_all__"

\* The columns of each class that the model keeps.
ClassColumns ==
    [ForumCategory |-> {"id", "position", "deleted"},
     Forum |-> {"id", "category_id", "position", "deleted"},
     ForumThread |-> {"id", "forum_id", "deleted"},
     ForumPost |-> {"id", "thread_id", "time", "deleted"},
     ForumPostEditHistory |-> {"id", "post_id"}]

\* The builtin function id, which a method that has no local of that name
\* reads when it says `id`.
Builtin == [t |-> "builtin", v |-> "<built-in function id>"]

\* getattr(cls, name): the class's own cache key attribute, else the column
\* of that name, else BaseModel's __cache_key__ = None, else AttributeError.
ClassAttr(class, name) ==
    IF \E f \in KeyFamilies : f.class = class /\ f.attr = name
    THEN [found |-> TRUE,
          value |-> (CHOOSE f \in KeyFamilies :
                        f.class = class /\ f.attr = name).template]
    ELSE IF name \in ClassColumns[class]
    THEN [found |-> TRUE, value |-> name]
    ELSE IF name = "__cache_key__" THEN [found |-> TRUE, value |-> None]
    ELSE [found |-> FALSE, value |-> None]

\* template.format(id=id)
Format(template, id) ==
    template.prefix \o (IF id.t = "int" THEN ToString(id.v) ELSE id.v)
        \o template.suffix

\* Every key the forum models can format.
BoardKeys ==
    {Format(f.template, PyNumber(i)) : f \in KeyFamilies, i \in BoardIds}
        \cup {cache_key_all, Format(Template("forums_", ""), Builtin)}

\* The tables before anything is stored.
NoBoard == [c \in BoardClasses |-> [i \in BoardIds |-> None]]

\* The ids of the rows of a table that satisfy a filter, as a set.
RowsWhere(table, Test(_)) ==
    {i \in BoardIds : table[i] # None /\ Test(table[i].v)}

\* order_by(key.asc()).all() of a set of ids; no two rows of the fixtures
\* share a key.
RECURSIVE OrderAsc(_, _)
OrderAsc(S, key) ==
    IF S = {} THEN <<>>
    ELSE LET m == CHOOSE x \in S : \A y \in S : key[x] <= key[y]
         IN  <<m>> \o OrderAsc(S \ {m}, key)

\* The sequence in reverse: order_by(key.desc()).
Reverse(s) == [i \in 1..Len(s) |-> s[Len(s) + 1 - i]]

\* The outcome of a call and the cache it leaves.
Outcome(out, store) == [out |-> out, kv |-> store]

\* BaseModel.from_cache(key, query=...) as the forum classes call it: row is
\* what query.first() returns.
board_from_cache(store, key, class, row) ==
    LET data == store[key]
        usable == Truthy(data) /\ IsDict(data)
        valid == usable /\ DOMAIN data.v = ClassColumns[class]
        store1 == IF usable /\ ~valid THEN [store EXCEPT ![key] = None]
                  ELSE store
        own == Format(ClassAttr(class, "__cache_key__").value,
                      PyNumber(row.v["id"]))
    IN  IF valid THEN [obj |-> Model(data.v), kv |-> store]
        ELSE IF row = None THEN [obj |-> None, kv |-> store1]
        ELSE [obj |-> row, kv |-> [store1 EXCEPT ![own] = Dict(row.v)]]

\* from_id(id, include_dead) of ForumCategory, Forum, ForumThread and
\* ForumPost.  A class without a __cache_key__ of its own formats None; an
\* id that is not a number fails in the query.
entity_from_id(store, b, class, id, include_dead) ==
    LET template == ClassAttr(class, "__cache_key__").value
        key == Format(template, id)
        r == board_from_cache(store, key, class, b[class][id.v])
    IN  IF template = None THEN Outcome(Raise("AttributeError"), store)
        ELSE IF id.t # "int"
        THEN IF Truthy(store[key]) /\ IsDict(store[key])
                /\ DOMAIN store[key].v = ClassColumns[class]
             THEN Outcome(Return(Model(store[key].v)), store)
             ELSE Outcome(Raise("StatementError"), store)
        ELSE IF r.obj # None /\ (include_dead \/ ~r.obj.v["deleted"])
        THEN Outcome(Return(r.obj), r.kv)
        ELSE Outcome(Return(None), r.kv)

\* len() of what a `for` loop walks: the items of a list, the keys of a
\* dict.
Size(x) == IF x.t = "list" THEN Len(x.v) ELSE Cardinality(DOMAIN x.v)

\* The loop of Forum.from_category over n items: each turn loads
\* cls.from_id(id) and keeps what is truthy.
RECURSIVE from_category_loop(_, _, _, _)
from_category_loop(store, b, n, forums) ==
    IF n = 0 THEN Outcome(Return(List(forums)), store)
    ELSE LET r == entity_from_id(store, b, "Forum", Builtin, FALSE)
         IN  IF r.out.kind # "return" THEN r
             ELSE from_category_loop(
                      r.kv, b, n - 1,
                      IF r.out.obj # None THEN Append(forums, r.out.obj)
                      ELSE forums)

\* Forum.from_category(category_id)
from_category(store, b, category_id) ==
    LET cache_key == Format(
            ClassAttr("Forum", "__cache_key_of_category__").value,
            PyNumber(category_id))
        miss == ~Truthy(store[cache_key])
        queried == List(OrderAsc(
            RowsWhere(b["Forum"], LAMBDA f : f["category_id"] = category_id),
            [i \in BoardIds |->
                IF b["Forum"][i] = None THEN 0
                ELSE b["Forum"][i].v["position"]]))
        forum_ids == IF miss THEN queried ELSE store[cache_key]
        store1 == IF miss THEN [store EXCEPT ![cache_key] = queried]
                  ELSE store
    IN  from_category_loop(store1, b, Size(forum_ids), <<>>)

\* func.max(ForumPost.time) of the posts of a thread: the expression of
\* ForumThread.last_updated.  Every thread of the fixtures has a post.
last_updated(b, thread) ==
    LET times == {b["ForumPost"][p].v["time"] :
                    p \in RowsWhere(b["ForumPost"],
                                    LAMBDA q : q["thread_id"] = thread)}
    IN  CHOOSE t \in times : \A u \in times : u <= t

\* The threads of a forum in the order of order_by(last_updated): oldest
\* update first.
threads_by_last_updated(b, forum_id) ==
    LET ids == RowsWhere(b["ForumThread"],
                         LAMBDA t : t["forum_id"] = forum_id)
    IN  OrderAsc(ids, [i \in BoardIds |->
                          IF i \in ids THEN last_updated(b, i) ELSE 0])

\* Forum.last_updated_thread of the forum with this id.
last_updated_thread(store, b, forum_id) ==
    LET cache_key == Format(
            ClassAttr("Forum", "__cache_key_last_updated__").value,
            PyNumber(forum_id))
        cached_id == store[cache_key]
        ordered == threads_by_last_updated(b, forum_id)
    IN  IF ~TruthyArgument(cached_id)
        THEN IF ordered = <<>>
             THEN Outcome(Raise("AttributeError"), store)
             ELSE Outcome(Return(b["ForumThread"][ordered[1]]),
                          [store EXCEPT ![cache_key] = PyNumber(ordered[1])])
        ELSE entity_from_id(store, b, "ForumThread", cached_id, FALSE)

\* The loop of ForumThread.from_forum over the sliced ids: every id is
\* loaded and appended, and the loop stops at limit.
RECURSIVE from_forum_loop(_, _, _, _, _)
from_forum_loop(store, b, ids, limit, acc) ==
    IF ids = <<>> THEN Outcome(Return(List(acc)), store)
    ELSE LET r == entity_from_id(store, b, "ForumThread",
                                 PyNumber(Head(ids)), FALSE)
             threads1 == Append(acc, r.out.obj)
         IN  IF r.out.kind # "return" THEN r
             ELSE IF Len(threads1) >= limit
             THEN Outcome(Return(List(threads1)), r.kv)
             ELSE from_forum_loop(r.kv, b, Tail(ids), limit, threads1)

\* ForumThread.from_forum(forum_id, page, limit): a miss queries
\* cls.thread_id, which ForumThread does not have.
from_forum(store, b, forum_id, page, limit) ==
    LET cache_key == Format(
            ClassAttr("ForumThread", "__cache_key_of_forum__").value,
            PyNumber(forum_id))
        thread_ids == store[cache_key]
    IN  IF ~Truthy(thread_ids)
        THEN IF ~ClassAttr("ForumThread", "thread_id").found
             THEN Outcome(Raise("AttributeError"), store)
             ELSE Outcome(Raise("NotImplemented"), store)
        ELSE from_forum_loop(store, b, Slice(thread_ids.v, page * limit + 1),
                             limit, <<>>)

\* The loop of ForumPost.from_thread over the sliced ids.
RECURSIVE from_thread_loop(_, _, _, _, _, _)
from_thread_loop(store, b, ids, limit, include_dead, acc) ==
    IF ids = <<>> THEN Outcome(Return(List(acc)), store)
    ELSE LET r == entity_from_id(store, b, "ForumPost",
                                 PyNumber(Head(ids)), FALSE)
             posts1 == Append(acc, r.out.obj)
         IN  IF r.out.kind # "return" THEN r
             ELSE IF r.out.obj = None
             THEN Outcome(Raise("AttributeError"), r.kv)
             ELSE IF ~(include_dead \/ ~r.out.obj.v["deleted"])
             THEN from_thread_loop(r.kv, b, Tail(ids), limit, include_dead,
                                   acc)
             ELSE IF Len(posts1) >= limit
             THEN Outcome(Return(List(posts1)), r.kv)
             ELSE from_thread_loop(r.kv, b, Tail(ids), limit, include_dead,
                                   posts1)

\* ForumPost.from_thread(thread_id, page, limit, include_dead): the key is
\* read from cls.__cache_key_posts__, which is ForumThread's.
from_thread(store, b, of_thread, page, limit, include_dead) ==
    LET attr == ClassAttr("ForumPost", "__cache_key_posts__")
        cache_key == Format(attr.value, PyNumber(of_thread))
        miss == ~Truthy(store[cache_key])
        queried == List(OrderAsc(
            RowsWhere(b["ForumPost"], LAMBDA p : p["thread_id"] = of_thread),
            [i \in BoardIds |-> i]))
        post_ids == IF miss THEN queried ELSE store[cache_key]
        store1 == IF miss THEN [store EXCEPT ![cache_key] = queried]
                  ELSE store
    IN  IF ~attr.found THEN Outcome(Raise("AttributeError"), store)
        ELSE from_thread_loop(store1, b,
                              Slice(post_ids.v, page * limit + 1), limit,
                              include_dead, <<>>)

\* A call of a forum model: its name and arguments, the cache before it,
\* and its outcome.
BoardCall(op, args, r) ==
    /\ bret = None
    /\ kv' = r.kv
    /\ bret' = [op |-> op, args |-> args, before |-> kv, out |-> r.out]
    /\ UNCHANGED <<board, permVars>>
    /\ OutsideBoard

\* ForumCategory.from_id(id, include_dead)
CategoryFromId(id, include_dead) ==
    BoardCall("ForumCategory.from_id", <<id, include_dead>>,
              entity_from_id(kv, board, "ForumCategory", PyNumber(id),
                             include_dead))

\* ForumThread.from_id(id, include_dead)
BoardThreadFromId(id, include_dead) ==
    BoardCall("ForumThread.from_id", <<id, include_dead>>,
              entity_from_id(kv, board, "ForumThread", PyNumber(id),
                             include_dead))

\* Forum.from_category(category_id)
FromCategory(category_id) ==
    BoardCall("Forum.from_category", <<category_id>>,
              from_category(kv, board, category_id))

\* forum.last_updated_thread of a forum of the table
LastUpdatedThread(forum_id) ==
    /\ board["Forum"][forum_id] # None
    /\ BoardCall("Forum.last_updated_thread", <<forum_id>>,
                 last_updated_thread(kv, board, forum_id))

\* ForumThread.from_forum(forum_id, page, limit)
FromForum(forum_id, page, limit) ==
    BoardCall("ForumThread.from_forum", <<forum_id, page, limit>>,
              from_forum(kv, board, forum_id, page, limit))

\* ForumPost.from_thread(thread_id, page, limit, include_dead)
FromThread(of_thread, page, limit, include_dead) ==
    BoardCall("ForumPost.from_thread",
              <<of_thread, page, limit, include_dead>>,
              from_thread(kv, board, of_thread, page, limit, include_dead))

\* The call returns.
EndBoard ==
    /\ bret # None
    /\ bret' = None
    /\ UNCHANGED <<board, kv, permVars>>
    /\ OutsideBoard

\* The categories and forums the calls name.
BoardCategoryIds == {1, 2}
BoardForumIds == {1, 2}

NextBoard ==
    \/ \E id \in BoardCategoryIds, include_dead \in BOOLEAN :
          CategoryFromId(id, include_dead)
    \/ \E id \in BoardIds, include_dead \in BOOLEAN :
          BoardThreadFromId(id, include_dead)
    \/ \E category_id \in BoardCategoryIds : FromCategory(category_id)
    \/ \E forum_id \in BoardForumIds : LastUpdatedThread(forum_id)
    \/ \E forum_id \in BoardForumIds, page \in BoardPages,
          limit \in BoardLimits : FromForum(forum_id, page, limit)
    \/ \E of_thread \in {1}, page \in BoardPages, limit \in BoardLimits,
          include_dead \in BOOLEAN :
          FromThread(of_thread, page, limit, include_dead)
    \/ EndBoard

\* The rows of the fixtures.  Category 1 holds forums 2, 1 and the deleted
\* forum 3, in that order of position; category 2 holds none.  Forum 1
\* holds the threads 1, 2, 5 and the deleted thread 3, forum 2 holds thread
\* 4.  Every thread has a post; oldest_dead tells whether the thread of
\* forum 1 with the oldest update is the deleted one.
CategoryRow(id) ==
    Model([id |-> id, position |-> id, deleted |-> FALSE])
ForumRow(id, position, deleted) ==
    Model([id |-> id, category_id |-> 1, position |-> position,
           deleted |-> deleted])
ThreadRow(id, forum_id, deleted) ==
    Model([id |-> id, forum_id |-> forum_id, deleted |-> deleted])
PostRow(id, of_thread, time) ==
    Model([id |-> id, thread_id |-> of_thread, time |-> time,
           deleted |-> FALSE])
BoardFixture(oldest_dead) ==
    [ForumCategory |->
        [i \in BoardIds |-> IF i \in {1, 2} THEN CategoryRow(i) ELSE None],
     Forum |->
        [i \in BoardIds |->
            CASE i = 1 -> ForumRow(1, 2, FALSE)
              [] i = 2 -> ForumRow(2, 1, FALSE)
              [] i = 3 -> ForumRow(3, 3, TRUE)
              [] OTHER -> None],
     ForumThread |->
        [i \in BoardIds |->
            CASE i \in {1, 2, 5} -> ThreadRow(i, 1, FALSE)
              [] i = 3 -> ThreadRow(3, 1, TRUE)
              [] i = 4 -> ThreadRow(4, 2, FALSE)
              [] OTHER -> None],
     ForumPost |->
        [i \in BoardIds |->
            CASE i = 1 -> PostRow(1, 1, 9)
              [] i = 2 -> PostRow(2, 2, 4)
              [] i = 3 -> PostRow(3, 3, IF oldest_dead THEN 1 ELSE 6)
              [] i = 4 -> PostRow(4, 4, 5)
              [] i = 5 -> PostRow(5, 5, 2)
              [] OTHER -> None],
     ForumPostEditHistory |-> [i \in BoardIds |-> None]]

\* The id list of a forum's threads as ForumThread.from_forum means to
\* store it: newest update first.
ThreadIdsOfForum(b, forum_id) ==
    List(Reverse(threads_by_last_updated(b, forum_id)))

(***************************************************************************)
(* Single-row lookups by query (src/pulsar/base_model.py, from_query).     *)
(***************************************************************************)
\* The largest id of the table the queries read.
MaxFound == 2
QueryIds == 1..MaxFound

\* query.limit(1).first() of the callers' query for a user: the filter is
\* cls.user_id == u and the order is cls.id.desc(), so the row with the
\* largest id wins.
query_limit_first(d, u) ==
    LET ids == {i \in DOMAIN d : d[i] # None /\ d[i].v["user_id"] = u}
    IN  IF ids = {} THEN None
        ELSE d[CHOOSE i \in ids : \A j \in ids : j <= i]

\* BaseModel.from_query(key, filter, order): the result, the entity cache
\* and the cached ids as the call leaves them.
from_query(c, k, d, u) ==
    LET cls_id == k[u]
        model == query_limit_first(d, u)
        id == model.v["id"]
        hit == from_id(c, d, cls_id.v, FALSE, "", "False", Anonymous)
    IN  IF ~TruthyArgument(cls_id)
        THEN IF model # None
             THEN [out |-> Return(model),
                   cache |-> IF c[id] = None THEN cache_model(c, model)
                             ELSE c,
                   key |-> [k EXCEPT ![u] = PyNumber(id)]]
             ELSE [out |-> Return(None), cache |-> c, key |-> k]
        ELSE [out |-> hit.out, cache |-> hit.cache, key |-> k]

\* cls.from_query(key=..., filter=cls.user_id == u, order=cls.id.desc())
FromQuery(u) ==
    /\ qret = None
    /\ LET r == from_query(found_cache, found_key, found_db, u)
       IN  /\ found_cache' = r.cache
           /\ found_key' = r.key
           /\ qret' = [op |-> "from_query", arg |-> u,
                       before |-> [cache |-> found_cache, key |-> found_key],
                       out |-> r.out]
    /\ UNCHANGED <<found_db, permVars>>
    /\ OutsideQuery

\* cls.from_id(id, include_dead=include_dead) of another request.
QueryFromId(id, include_dead) ==
    /\ qret = None
    /\ LET r == from_id(found_cache, found_db, id, include_dead, "", "False",
                        Anonymous)
       IN  /\ found_cache' = r.cache
           /\ qret' = [op |-> "from_id", arg |-> id,
                       before |-> [cache |-> found_cache, key |-> found_key],
                       out |-> r.out]
    /\ UNCHANGED <<found_db, found_key, permVars>>
    /\ OutsideQuery

\* The call returns.
EndQuery ==
    /\ qret # None
    /\ qret' = None
    /\ UNCHANGED <<found_db, found_cache, found_key, permVars>>
    /\ OutsideQuery

NextQuery ==
    \/ \E u \in Users : FromQuery(u)
    \/ \E id \in QueryIds, include_dead \in BOOLEAN :
          QueryFromId(id, include_dead)
    \/ EndQuery

\* The rows a table of the fixtures holds under an id: none, a live row of
\* user 1 or of user 2, or a soft-deleted row of user 1.
QueryRows(i) ==
    {None, Model(Row("deleted", i, 1, FALSE)),
     Model(Row("deleted", i, 2, FALSE)), Model(Row("deleted", i, 1, TRUE))}

(***************************************************************************)
(* The specifications: one per subsystem.                                  *)
(***************************************************************************)
vars ==
    <<permVars, entityVars, serVars, permCallVars, reqVars, chgVars, sessVars,
      regVars, forumVars,
      manyVars,
      modVars,
      counterVars,
      boardVars,
      queryVars>>

IdleEntity ==
    /\ cls = "deleted"
    /\ db = [i \in Ids |-> None]
    /\ cache = [i \in Ids |-> None]
    /\ cache_keys = [delete |-> {}, set |-> {}]
    /\ ret = NoCall

IdleSerialize == serializer = None /\ ser = None

IdlePermissions == perm_ret = None

IdleChange == chg = None

IdleRegister ==
    /\ reg_users = <<>>
    /\ invites = [c \in InviteCodes |-> None]
    /\ clock = 0
    /\ require_invite_code = FALSE
    /\ reg = [p \in Registrants |-> NotRegistering]

IdleForum ==
    /\ forum_threads = [t \in ForumThreadIds |-> None]
    /\ thread_cache = [t \in ForumThreadIds |-> None]
    /\ forum_posts = [p \in ForumPostIds |-> None]
    /\ post_cache = [p \in ForumPostIds |-> None]
    /\ forum_of = [t \in ForumThreadIds |-> 0]
    /\ forum_subscriptions = {}
    /\ thread_subscriptions = [k \in Users \X ForumThreadIds |-> 0]
    /\ subscription_cache = [u \in Users |-> None]
    /\ fres = NoForumCall

IdleMany ==
    /\ many_db = [i \in EntityIds |-> None]
    /\ many_cache = [i \in EntityIds |-> None]
    /\ ids_cache = None
    /\ mret = None

IdleModerate ==
    /\ profile = [u \in Users |-> FixtureProfile]
    /\ mod = None

IdleCounter ==
    /\ counters = [k \in CounterKeys |-> None]
    /\ inc_ret = None

IdleBoard ==
    /\ board = NoBoard
    /\ kv = [k \in BoardKeys |-> None]
    /\ bret = None

IdleQuery ==
    /\ found_db = [i \in QueryIds |-> None]
    /\ found_cache = [i \in QueryIds |-> None]
    /\ found_key = [u \in Users |-> None]
    /\ qret = None

IdleSession ==
    /\ session_db = [h \in SessionIds |-> None]
    /\ session_cache = [h \in SessionIds |-> None]
    /\ now = 0
    /\ passhash = [u \in Users |-> generate_password_hash("")]
    /\ acct = None

InitEntity ==
    /\ EntityUsers
    /\ cls \in LivenessColumns
    /\ db = [i \in Ids |-> None]
    /\ cache = [i \in Ids |-> None]
    /\ cache_keys = [delete |-> {}, set |-> {}]
    /\ ret = NoCall
    /\ IdleSerialize
    /\ IdlePermissions
    /\ IdleRequest
    /\ IdleChange
    /\ IdleSession
    /\ IdleRegister
    /\ IdleForum
    /\ IdleQuery
    /\ IdleBoard
    /\ IdleCounter
    /\ IdleModerate
    /\ IdleMany

InitSerialize ==
    /\ SerializerUsers
    /\ serializer \in [Fields -> Attributes]
    /\ ser = None
    /\ IdleEntity
    /\ IdlePermissions
    /\ IdleRequest
    /\ IdleChange
    /\ IdleSession
    /\ IdleRegister
    /\ IdleForum
    /\ IdleQuery
    /\ IdleBoard
    /\ IdleCounter
    /\ IdleModerate
    /\ IdleMany

\* User 1 is drawn from the bounded sets; user 2 is a plain member.
InitPermissions ==
    /\ \E locked \in BOOLEAN, sec \in SUBSET {"FLS", "Donor"} :
          users = [u \in Users |->
                    IF u = 1
                    THEN [locked |-> locked, user_class |-> "User",
                          secondary |-> sec]
                    ELSE [locked |-> FALSE, user_class |-> "User",
                          secondary |-> {}]]
    /\ user_classes \in [{"User"} -> ClassLists]
    /\ secondary_classes \in [{"FLS", "Donor"} -> ClassLists]
    /\ \E rows \in OverrideRows :
          users_permissions =
            [u \in Users |-> IF u = 1 THEN rows ELSE [p \in {} |-> TRUE]]
    /\ \E l \in LockedConfigs : config = [locked_account_permissions |-> l]
    /\ perm_ret = None
    /\ IdleEntity
    /\ IdleSerialize
    /\ IdleRequest
    /\ IdleChange
    /\ IdleSession
    /\ IdleRegister
    /\ IdleForum
    /\ IdleQuery
    /\ IdleBoard
    /\ IdleCounter
    /\ IdleModerate
    /\ IdleMany

\* The request pipeline starts with empty tables.
InitRequest ==
    /\ RequestUsers
    /\ IdleRequest
    /\ IdleEntity
    /\ IdleSerialize
    /\ IdlePermissions
    /\ IdleChange
    /\ IdleSession
    /\ IdleRegister
    /\ IdleForum
    /\ IdleQuery
    /\ IdleBoard
    /\ IdleCounter
    /\ IdleModerate
    /\ IdleMany

SpecEntity == InitEntity /\ [][NextEntity]_vars

SpecSerialize == InitSerialize /\ [][NextSerialize]_vars

SpecPermissions == InitPermissions /\ [][NextPermissions]_vars

SpecRequest == InitRequest /\ [][NextRequest]_vars

\* The permission changes start with the override rows drawn for user 1.
InitChange ==
    /\ ChangeUsers
    /\ chg = None
    /\ IdleEntity
    /\ IdleSerialize
    /\ IdlePermissions
    /\ IdleRequest
    /\ IdleSession
    /\ IdleRegister
    /\ IdleForum
    /\ IdleQuery
    /\ IdleBoard
    /\ IdleCounter
    /\ IdleModerate
    /\ IdleMany

SpecChange == InitChange /\ [][NextChange]_vars

\* The sessions start with the fixtures in the table and nothing cached.
InitSession ==
    /\ RequestUsers
    /\ session_db = SessionFixtures
    /\ session_cache = [h \in SessionIds |-> None]
    /\ now = 0
    /\ passhash = [u \in Users |-> generate_password_hash("")]
    /\ acct = NoSessionCall
    /\ IdleEntity
    /\ IdleSerialize
    /\ IdlePermissions
    /\ IdleRequest
    /\ IdleChange
    /\ IdleRegister
    /\ IdleForum
    /\ IdleQuery
    /\ IdleBoard
    /\ IdleCounter
    /\ IdleModerate
    /\ IdleMany

SpecSession == InitSession /\ [][NextSession]_vars

\* The settings route starts with every password set to pw-old.
InitSettings ==
    /\ SettingsUsers
    /\ session_db \in SettingsSessions
    /\ session_cache = [h \in SessionIds |-> None]
    /\ now = 0
    /\ passhash = [u \in Users |-> generate_password_hash("pw-old")]
    /\ acct = NoSessionCall
    /\ IdleEntity
    /\ IdleSerialize
    /\ IdlePermissions
    /\ IdleRequest
    /\ IdleChange
    /\ IdleRegister
    /\ IdleForum
    /\ IdleQuery
    /\ IdleBoard
    /\ IdleCounter
    /\ IdleModerate
    /\ IdleMany

SpecSettings == InitSettings /\ [][NextSettings]_vars

\* The registrations start with the user lights and the invites of the
\* fixtures; the site requires invite codes or not.
InitRegister ==
    /\ RequestUsers
    /\ reg_users = <<[username |-> "lights"]>>
    /\ invites \in RegisterInvites
    /\ clock = 0
    /\ require_invite_code \in BOOLEAN
    /\ reg = [p \in Registrants |-> NotRegistering]
    /\ IdleEntity
    /\ IdleSerialize
    /\ IdlePermissions
    /\ IdleRequest
    /\ IdleChange
    /\ IdleSession
    /\ IdleForum
    /\ IdleQuery
    /\ IdleBoard
    /\ IdleCounter
    /\ IdleModerate
    /\ IdleMany

SpecRegister == InitRegister /\ [][NextRegister]_vars

\* The threads and posts of the fixtures, all live and none cached.
InitForum ==
    /\ ForumUsers
    /\ forum_threads = [t \in ForumThreadIds |->
                          Model(Row("deleted", t, 1, FALSE))]
    /\ thread_cache = [t \in ForumThreadIds |-> None]
    /\ forum_posts = [p \in ForumPostIds |->
                        Model(Row("deleted", p, 1, FALSE))]
    /\ post_cache = [p \in ForumPostIds |-> None]
    /\ forum_of = [t \in ForumThreadIds |-> 1]
    /\ forum_subscriptions = {}
    /\ thread_subscriptions = [k \in Users \X ForumThreadIds |-> 0]
    /\ subscription_cache = [u \in Users |-> None]
    /\ fres = NoForumCall
    /\ IdleEntity
    /\ IdleSerialize
    /\ IdlePermissions
    /\ IdleRequest
    /\ IdleChange
    /\ IdleSession
    /\ IdleRegister
    /\ IdleQuery
    /\ IdleBoard
    /\ IdleCounter
    /\ IdleModerate
    /\ IdleMany

SpecForum == InitForum /\ [][NextForum]_vars

\* The forum subscriptions of the fixtures: user 1 is subscribed to forum
\* 1, user 2 to forum 1 or to forum 2.
ForumSubscriptionFixtures ==
    {{<<1, 1>>, <<2, 1>>}, {<<1, 1>>, <<2, 2>>}}

\* Thread 1 exists in forum 1, live or soft-deleted; the other threads are
\* yet to be posted.
InitSubscribe ==
    /\ ForumUsers
    /\ \E dead \in BOOLEAN :
          forum_threads = [t \in ForumThreadIds |->
                            IF t = 1 THEN Model(Row("deleted", t, 1, dead))
                            ELSE None]
    /\ thread_cache = [t \in ForumThreadIds |-> None]
    /\ forum_posts = [p \in ForumPostIds |-> None]
    /\ post_cache = [p \in ForumPostIds |-> None]
    /\ forum_of = [t \in ForumThreadIds |-> IF t = 1 THEN 1 ELSE 0]
    /\ forum_subscriptions \in ForumSubscriptionFixtures
    /\ thread_subscriptions = [k \in Users \X ForumThreadIds |-> 0]
    /\ subscription_cache = [u \in Users |-> None]
    /\ fres = NoForumCall
    /\ IdleEntity
    /\ IdleSerialize
    /\ IdlePermissions
    /\ IdleRequest
    /\ IdleChange
    /\ IdleSession
    /\ IdleRegister
    /\ IdleQuery
    /\ IdleBoard
    /\ IdleCounter
    /\ IdleModerate
    /\ IdleMany

SpecSubscribe == InitSubscribe /\ [][NextSubscribe]_vars

\* The table, the row cache and the cached id list of the fixtures.
InitMany ==
    /\ RequestUsers
    /\ many_db \in ManyTables
    /\ many_cache \in ManyCaches
    /\ ids_cache \in IdLists
    /\ mret = None
    /\ IdleEntity
    /\ IdleSerialize
    /\ IdlePermissions
    /\ IdleRequest
    /\ IdleChange
    /\ IdleSession
    /\ IdleRegister
    /\ IdleForum
    /\ IdleQuery
    /\ IdleBoard
    /\ IdleCounter
    /\ IdleModerate

SpecMany == InitMany /\ [][NextMany]_vars

\* The users of the fixtures; user 2 holds moderate_users.
InitModerate ==
    /\ SerializerUsers
    /\ profile = [u \in Users |-> FixtureProfile]
    /\ mod = None
    /\ IdleEntity
    /\ IdleSerialize
    /\ IdlePermissions
    /\ IdleRequest
    /\ IdleChange
    /\ IdleSession
    /\ IdleRegister
    /\ IdleForum
    /\ IdleQuery
    /\ IdleBoard
    /\ IdleCounter
    /\ IdleMany

SpecModerate == InitModerate /\ [][NextModerate]_vars

\* No counter is stored.
InitCounter ==
    /\ SerializerUsers
    /\ counters = [k \in CounterKeys |-> None]
    /\ inc_ret = None
    /\ IdleEntity
    /\ IdleSerialize
    /\ IdlePermissions
    /\ IdleRequest
    /\ IdleChange
    /\ IdleSession
    /\ IdleRegister
    /\ IdleForum
    /\ IdleQuery
    /\ IdleBoard
    /\ IdleMany
    /\ IdleModerate

SpecCounter == InitCounter /\ [][NextCounter]_vars

\* The tables of the fixtures, with the cache empty or holding the thread
\* id list of forum 1 under its key.
InitBoard ==
    /\ SerializerUsers
    /\ \E oldest_dead \in BOOLEAN : board = BoardFixture(oldest_dead)
    /\ \E warm \in BOOLEAN :
          kv = [k \in BoardKeys |->
                  IF warm /\ k = "forums_threads_forums_1"
                  THEN ThreadIdsOfForum(board, 1) ELSE None]
    /\ bret = None
    /\ IdleEntity
    /\ IdleSerialize
    /\ IdlePermissions
    /\ IdleRequest
    /\ IdleChange
    /\ IdleSession
    /\ IdleRegister
    /\ IdleForum
    /\ IdleQuery
    /\ IdleMany
    /\ IdleModerate
    /\ IdleCounter

SpecBoard == InitBoard /\ [][NextBoard]_vars

\* The password changes: the users and sessions of the settings fixtures
\* and the profiles of the moderation fixtures, one request at a time.
PasswordRequests ==
    {data \in ModerateSchema :
        data.uploaded = None /\ data.downloaded = None /\ data.invites = None}

NextPassword ==
    \/ mod = None /\ NextSettings
    \/ /\ acct = NoSessionCall
       /\ \E requester \in Requesters, user_id \in ModerateUserIds,
             data \in PasswordRequests :
             ModerateUser(requester, user_id, data)
    \/ acct = NoSessionCall /\ EndModerate

InitPassword ==
    /\ SettingsUsers
    /\ session_db \in SettingsSessions
    /\ session_cache = [h \in SessionIds |-> None]
    /\ now = 0
    /\ passhash = [u \in Users |-> generate_password_hash("pw-old")]
    /\ acct = NoSessionCall
    /\ profile = [u \in Users |-> FixtureProfile]
    /\ mod = None
    /\ IdleEntity
    /\ IdleSerialize
    /\ IdlePermissions
    /\ IdleRequest
    /\ IdleChange
    /\ IdleRegister
    /\ IdleForum
    /\ IdleQuery
    /\ IdleMany
    /\ IdleCounter
    /\ IdleBoard

SpecPassword == InitPassword /\ [][NextPassword]_vars

\* Any table of the fixtures, with nothing cached.  No action changes the
\* table.
InitQuery ==
    /\ SerializerUsers
    /\ found_db \in {d \in [QueryIds -> UNION {QueryRows(i) : i \in QueryIds}] :
                       \A i \in QueryIds : d[i] \in QueryRows(i)}
    /\ found_cache = [i \in QueryIds |-> None]
    /\ found_key = [u \in Users |-> None]
    /\ qret = None
    /\ IdleEntity
    /\ IdleSerialize
    /\ IdlePermissions
    /\ IdleRequest
    /\ IdleChange
    /\ IdleSession
    /\ IdleRegister
    /\ IdleForum
    /\ IdleMany
    /\ IdleModerate
    /\ IdleCounter
    /\ IdleBoard

SpecQuery == InitQuery /\ [][NextQuery]_vars

(***************************************************************************)
(* Properties of the entity lookups.                                       *)
(***************************************************************************)
\* One of the liveness columns of the row is set.
AnyFlagSet(row) == \E c \in LivenessColumns : c \in DOMAIN row /\ row[c] = TRUE

\* The cached value the call found was a mapping of the current columns.
CacheHit == Truthy(ret.before) /\ IsDict(ret.before)
                /\ DOMAIN ret.before.v = Columns(cls)

\* The cached value the call found was a mapping of other columns.
StaleShape == Truthy(ret.before) /\ IsDict(ret.before)
                /\ DOMAIN ret.before.v # Columns(cls)

\* C6: from_id without include_dead never returns a row whose deleted,
\* revoked or expired flag is set, whether the row was read from the cache
\* or from the store; from_id with include_dead (and no access check)
\* returns the row it read, dead or not.
C6_LivenessFilter ==
    ret.op = "from_id" /\ ret.loaded # None =>
        /\ (~ret.include_dead /\ AnyFlagSet(ret.loaded.v)) => ret.obj = None
        /\ (ret.include_dead /\ ret.asrt = "False") =>
                ret.kind = "return" /\ ret.obj = ret.loaded

\* C6 witness: a dead row served from the cache is withheld.
C6_Witness ==
    /\ ret.op = "from_id" /\ ~ret.include_dead /\ ret.e404 = ""
    /\ CacheHit
    /\ ret.loaded # None /\ AnyFlagSet(ret.loaded.v)
    /\ ret.kind = "return" /\ ret.obj = None

\* The requester of the last call owns the row the call read.
IsOwner == ret.loaded # None /\ ret.user # Anonymous
            /\ ret.loaded.v["user_id"] = ret.user

\* The requester of the last call holds the permission passed as asrt.
IsHolder == ret.user # Anonymous /\ has_permission(ret.user, ret.asrt)

\* C7: from_id with an access check and a not-found tag raises the same
\* _404Exception (the tag and the id) for a requester who is neither the
\* owner nor a holder of the permission, whether or not the row exists; an
\* owner or a holder gets the row (when the liveness filter lets it pass).
C7_NotFoundIndistinguishable ==
    ret.op = "from_id" /\ ret.asrt # "False" /\ ret.e404 # "" =>
        /\ (~IsOwner /\ ~IsHolder) =>
                /\ ret.kind = "_404Exception"
                /\ ret.msg = <<ret.e404, ret.id>>
        /\ ((IsOwner \/ IsHolder) /\ ret.loaded # None
                /\ (ret.include_dead \/ ~AnyFlagSet(ret.loaded.v))) =>
                ret.kind = "return" /\ ret.obj = ret.loaded

\* C8: from_cache never returns an entity built from a cached mapping whose
\* key set differs from the declared columns: the entry is deleted, and the
\* result is the row of the supplied query (cached again under the key), or
\* None when no query was supplied or the query finds no row.
C8_StaleEntryEvicted ==
    /\ (ret.op # "none" /\ ret.loaded # None) =>
            DOMAIN ret.loaded.v = Columns(cls)
    /\ (ret.op # "none" /\ StaleShape) =>
            /\ ret.id \in cache_keys.delete
            /\ ret.loaded = (IF ret.has_query THEN ret.stored ELSE None)
            /\ cache[ret.id] =
                    (IF ret.has_query /\ ret.stored # None
                     THEN Dict(ret.stored.v) ELSE None)

\* C8 witness: a mapping with a dropped column was found, evicted, and the
\* row of the query cached in its place.
C8_Witness ==
    /\ ret.op = "from_cache" /\ ret.has_query
    /\ StaleShape /\ "legacy" \in DOMAIN ret.before.v
    /\ ret.stored # None /\ ret.loaded = ret.stored
    /\ ret.id \in cache_keys.delete
    /\ cache[ret.id] = Dict(ret.stored.v)

(***************************************************************************)
(* Properties of the serializer.                                           *)
(***************************************************************************)
\* The requester holds the permission.
Holds(u, perm) == u # Anonymous /\ has_permission(u, perm)

RECURSIVE NoDisclosure(_, _, _)
\* No gated field of the output of obj, nor of the outputs nested in it,
\* carries a value unless the requester holds the field's permission or
\* the field allows self access and the object is the requester's.
NoDisclosure(obj, out, u) ==
    out # None =>
        \A name \in Fields :
            /\ (serializer[name].permission # "" /\ out.v[name] # None) =>
                    \/ Holds(u, serializer[name].permission)
                    \/ (serializer[name].self_access /\ u # Anonymous
                            /\ obj.user_id = u)
            /\ (out.v[name].t = "dict" /\ obj[name].t = "model") =>
                    NoDisclosure(obj[name].v, out.v[name], u)
            /\ (out.v[name].t = "list" /\ obj[name].t = "list") =>
                    \A i \in DOMAIN out.v[name].v :
                        NoDisclosure(obj[name].v[i].v, out.v[name].v[i], u)

\* C1: the serialized output carries a value for a field that declares a
\* permission only if the requester (anonymous included) holds it, or the
\* field allows self access and the object belongs to the requester.
C1_NoGatedDisclosure ==
    ser # None => NoDisclosure(ser.obj, ser.out, ser.user)

\* C1 witness: a gated field is emitted to the owner, who does not hold
\* the permission, together with the object nested in the other field.
C1_Witness ==
    /\ ser # None /\ ser.out # None
    /\ serializer["email"].permission # ""
    /\ ~Holds(ser.user, serializer["email"].permission)
    /\ ser.obj.user_id = ser.user
    /\ ser.out.v["email"] # None
    /\ ser.out.v["inviter"].t = "dict"

(***************************************************************************)
(* Properties of the request pipeline.                                     *)
(***************************************************************************)
\* The request left the threads and the posts as it found them.
NoStateChange == resp.before = [threads |-> threads, posts |-> posts]

\* The step ran while the request was served.
Ran(step) == \E i \in DOMAIN resp.trace : resp.trace[i] = step

GoodCookie ==
    /\ resp.cookie # None
    /\ \E h \in SessionHashes :
          /\ sessions[h] # None
          /\ ~sessions[h].v.expired
          /\ resp.cookie.session_hash = h
          /\ resp.cookie.user_id = sessions[h].v.user_id

\* The header is "Token", the ten characters of a stored, active key and a
\* secret that verifies against the key's salted hash.
GoodToken ==
    /\ resp.authorization # None
    /\ resp.authorization.scheme = "Token"
    /\ \E k \in KeyHashes, s \in Secrets :
          /\ api_keys[k] # None
          /\ ~api_keys[k].v.revoked
          /\ Len(k) = HashLen
          /\ api_keys[k].v.keyhashsalt = generate_password_hash(s)
          /\ resp.authorization.credentials = k \o s

\* C3: after the hook at most one of session and API key is attached, a
\* user is attached exactly when one of them is and is its owner, and a bad
\* cookie or a bad token attaches nothing.
C3_HookIdentity ==
    resp # None =>
        /\ ~(resp.user_session # "" /\ resp.api_key # <<>>)
        /\ resp.user # Anonymous <=>
                (resp.user_session # "" \/ resp.api_key # <<>>)
        /\ resp.user_session # "" =>
                /\ resp.cookie # None
                /\ resp.user_session = resp.cookie.session_hash
                /\ sessions[resp.user_session].v.user_id = resp.user
        /\ resp.api_key # <<>> =>
                api_keys[resp.api_key].v.user_id = resp.user
        /\ ~GoodCookie => resp.user_session = ""
        /\ ~GoodToken => resp.api_key = <<>>

\* C3 witness: a cookie carrying another user's id on a live session came
\* with a valid token; the key was attached and the session was not.
C3_Witness ==
    /\ resp # None
    /\ resp.cookie # None
    /\ resp.cookie.session_hash \in SessionHashes
    /\ sessions[resp.cookie.session_hash] # None
    /\ ~sessions[resp.cookie.session_hash].v.expired
    /\ resp.cookie.user_id # sessions[resp.cookie.session_hash].v.user_id
    /\ resp.user_session = ""
    /\ resp.api_key = KeyHash
    /\ resp.user = api_keys[KeyHash].v.user_id

C5_CsrfTokenEcho ==
    resp # None =>
        /\ resp.api_key # <<>> =>
                /\ resp.json.response # <<"Invalid authorization key.">>
                /\ "csrf_token" \notin DOMAIN resp.json
                /\ (resp.method \in UnsafeMethods /\ resp.endpoint = "test_csrf")
                        => resp.json.status = "success"
        /\ resp.user_session # "" =>
                /\ "csrf_token" \in DOMAIN resp.json
                /\ resp.json.csrf_token =
                        sessions[resp.user_session].v.csrf_token

\* C5 witness: a token-authenticated POST without csrf_token succeeded and
\* its response has no csrf_token field.
C5_Witness ==
    /\ resp # None
    /\ resp.api_key # <<>>
    /\ resp.method = "POST"
    /\ resp.csrf_token = ""
    /\ resp.json.status = "success"
    /\ resp.json.response = <<"completed">>
    /\ "csrf_token" \notin DOMAIN resp.json

(***************************************************************************)
(* Properties of the effective permission set.                             *)
(***************************************************************************)
\* The permission is granted by the user's primary class, by one of the
\* user's secondary classes, or by a grant row.
Granted(u, p) ==
    \/ \E i \in DOMAIN user_classes[users[u].user_class] :
            user_classes[users[u].user_class][i] = p
    \/ \E sc \in users[u].secondary :
            \E i \in DOMAIN secondary_classes[sc] : secondary_classes[sc][i] = p
    \/ (p \in DOMAIN users_permissions[u] /\ users_permissions[u][p] = TRUE)

\* The user has a revoke row for the permission.
Revoked(u, p) ==
    p \in DOMAIN users_permissions[u] /\ users_permissions[u][p] = FALSE

\* C9: the effective permissions of a user who is not locked are exactly
\* the permissions granted by the primary class, a secondary class or a
\* grant row that have no revoke row, each listed once.
C9_EffectivePermissions ==
    (perm_ret # None /\ ~users[perm_ret.user].locked) =>
        /\ \A i \in DOMAIN perm_ret.list :
                /\ Granted(perm_ret.user, perm_ret.list[i])
                /\ ~Revoked(perm_ret.user, perm_ret.list[i])
        /\ \A p \in UNION {ListToSet(l) : l \in ClassLists} \cup OverrideNames :
                (Granted(perm_ret.user, p) /\ ~Revoked(perm_ret.user, p)) =>
                    \E i \in DOMAIN perm_ret.list : perm_ret.list[i] = p
        /\ \A i, j \in DOMAIN perm_ret.list :
                i # j => perm_ret.list[i] # perm_ret.list[j]

\* C9 witness: a permission of the primary class is revoked by a row and
\* absent, and one granted by the primary and by a secondary class is
\* listed.
C9_Witness ==
    /\ perm_ret # None /\ perm_ret.user = 1 /\ ~users[1].locked
    /\ user_classes["User"] = <<"sample_a", "sample_b">>
    /\ Revoked(1, "sample_a")
    /\ "FLS" \in users[1].secondary
    /\ secondary_classes["FLS"] = <<"sample_b", "sample_c", "sample_b">>
    /\ ListToSet(perm_ret.list) = {"sample_b", "sample_c"}
    /\ Len(perm_ret.list) = 2

\* C10: a locked user's effective permissions are exactly view_staff_pm,
\* send_staff_pm and resolve_staff_pm whatever the classes and override
\* rows, unless a locked-account permission set is configured, and then
\* they are exactly the configured set.
C10_LockedPermissions ==
    (perm_ret # None /\ users[perm_ret.user].locked) =>
        IF config.locked_account_permissions = LockedPermissions
        THEN ListToSet(perm_ret.list) =
                {"view_staff_pm", "send_staff_pm", "resolve_staff_pm"}
        ELSE ListToSet(perm_ret.list) =
                ListToSet(config.locked_account_permissions)

\* C10 witness: a locked user whose class and grant rows give other
\* permissions has the three staff-PM permissions.
C10_Witness ==
    /\ perm_ret # None /\ perm_ret.user = 1 /\ users[1].locked
    /\ user_classes["User"] = <<"sample_a", "sample_b">>
    /\ Overrides(1, TRUE) = {"sample_d"}
    /\ config.locked_account_permissions = LockedPermissions
    /\ ListToSet(perm_ret.list) =
            {"view_staff_pm", "send_staff_pm", "resolve_staff_pm"}

(***************************************************************************)
(* Properties of the permission changes.                                   *)
(***************************************************************************)
\* The names the change map of the request maps to the given boolean.
Requested(b) ==
    {chg.body.v[i][1] : i \in {j \in DOMAIN chg.body.v :
                                  chg.body.v[j][2] = PyBool(b)}}

\* The override rows and the primary class of the user when the request
\* arrived.
HadGrant(p) == p \in DOMAIN chg.before.rows /\ chg.before.rows[p] = TRUE
HadRevoke(p) == p \in DOMAIN chg.before.rows /\ chg.before.rows[p] = FALSE
HadNoOverride(p) == p \notin DOMAIN chg.before.rows
InUserClass(p) ==
    \E i \in DOMAIN user_classes[users[chg.user].user_class] :
        user_classes[users[chg.user].user_class][i] = p

\* The request passed validation and reached check_permissions.
Checked == chg # None /\ chg.checked # None

\* check_permissions accepted the change map.
Accepted == Checked /\ chg.checked.kind = "return"

\* C11: for an accepted change map, add is the names requested true that
\* have a revoke row or have no row and are not in the user's class
\* permissions; delete is the names requested true that have a revoke row
\* and the names requested false that have a grant row; ungrant is the names
\* requested false that are in the user's class permissions.
C11_ReturnedLists ==
    Accepted =>
        /\ ListToSet(chg.checked.add) =
              {p \in Requested(TRUE) :
                  HadRevoke(p) \/ (HadNoOverride(p) /\ ~InUserClass(p))}
        /\ ListToSet(chg.checked.delete) =
              {p \in Requested(TRUE) : HadRevoke(p)}
                  \cup {p \in Requested(FALSE) : HadGrant(p)}
        /\ ListToSet(chg.checked.ungrant) =
              {p \in Requested(FALSE) : InUserClass(p)}

\* C11 witness: an accepted change map for which none of the three lists is
\* empty.
C11_Witness ==
    /\ Accepted
    /\ chg.checked.add # <<>>
    /\ chg.checked.delete # <<>>
    /\ chg.checked.ungrant # <<>>

\* The grant requests check_permissions is to refuse: the user has the
\* permission by the class or by a grant row, and no revoke row.
Unaddable ==
    {p \in Requested(TRUE) :
        HadGrant(p) \/ (InUserClass(p) /\ HadNoOverride(p))}

\* The removal requests check_permissions is to refuse: the user has the
\* permission neither by a grant row nor by the class.
Undeletable ==
    {p \in Requested(FALSE) : ~HadGrant(p) /\ ~InUserClass(p)}

ValidEntries == (Requested(TRUE) \ Unaddable) \cup (Requested(FALSE) \ Undeletable)

\* The request has an entry that can be applied and one that cannot.
Mixed ==
    Checked /\ ValidEntries # {} /\ (Unaddable # {} \/ Undeletable # {})

\* The override rows of the user show the entry applied.
Applied(p) ==
    LET rows == users_permissions[chg.user]
    IN  IF p \in Requested(TRUE)
        THEN p \in DOMAIN rows /\ rows[p] = TRUE
        ELSE IF InUserClass(p)
             THEN p \in DOMAIN rows /\ rows[p] = FALSE
             ELSE p \notin DOMAIN rows

\* C13 as stated: a request that mixes valid and invalid entries applies
\* the valid ones and reports only the invalid ones.
C13_MixedApplied ==
    Mixed =>
        /\ \A p \in ValidEntries : Applied(p)
        /\ ListToSet(chg.checked.errors_add) = Unaddable
        /\ ListToSet(chg.checked.errors_delete) = Undeletable

\* C13 amended: a request that mixes valid and invalid entries fails as one
\* failure that reports only the invalid ones, and none of its entries is
\* applied.
C13_MixedRejected ==
    Mixed =>
        /\ chg.kind = "APIException"
        /\ chg.checked.add = <<>>
        /\ chg.checked.ungrant = <<>>
        /\ chg.checked.delete = <<>>
        /\ \A p \in ValidEntries :
                /\ p \notin ListToSet(chg.checked.errors_add)
                /\ p \notin ListToSet(chg.checked.errors_delete)
        /\ users_permissions[chg.user] = chg.before.rows

\* C13 witness: a refused request with a grant that could have been applied
\* next to a removal that could not.
C13_Witness ==
    /\ Mixed
    /\ chg.kind = "APIException"
    /\ \E p \in ValidEntries : p \in Requested(TRUE) /\ ~Applied(p)
    /\ Undeletable # {}

\* Every value of the map is a boolean and every name mapped to true is a
\* recognized permission.
WellFormed ==
    \A i \in DOMAIN chg.body.v :
        /\ chg.body.v[i][2].t = "bool"
        /\ chg.body.v[i][2].v => chg.body.v[i][1] \in AllPermissions

C15_ChangeTakesEffect ==
    (chg # None /\ chg.kind = "success" /\ ~users[chg.user].locked) =>
        /\ \A p \in Requested(TRUE) :
                p \in ListToSet(permissions(chg.user))
        /\ \A p \in Requested(FALSE) :
                p \notin ListToSet(permissions(chg.user))
        /\ \A p \in ChangeNames \ (Requested(TRUE) \cup Requested(FALSE)) :
                /\ p \in DOMAIN users_permissions[chg.user]
                        <=> p \in DOMAIN chg.before.rows
                /\ p \in DOMAIN chg.before.rows =>
                        users_permissions[chg.user][p] = chg.before.rows[p]

(***************************************************************************)
(* Properties of the sessions.                                             *)
(***************************************************************************)
\* The session is_expired was asked about has been idle for longer than the
\* idle window.
IdleTooLong == now - acct.before.session.last_used > 30

\* C16: is_expired() answers true exactly when the stored flag of the
\* session is set, or the session is not persistent and was last used more
\* than 30 minutes ago.
C16_IsExpired ==
    (acct # None /\ acct.t = "is_expired") =>
        (acct.result.v <=>
            \/ acct.before.session.expired
            \/ ~acct.before.session.persistent /\ IdleTooLong)

\* C16 witness: is_expired() answered true for a session whose stored flag
\* read false, and false for a persistent session idle for as long.
C16_Witness ==
    /\ acct # None
    /\ acct.t = "is_expired"
    /\ IdleTooLong
    /\ ~acct.before.session.expired
    /\ acct.result.v = ~acct.before.session.persistent
    /\ \E h \in SessionIds :
          /\ session_db[h] # None
          /\ session_db[h].v.persistent # acct.before.session.persistent
          /\ session_db[h].v.last_used = acct.before.session.last_used

\* The sessions the user had when expire_all_of_user was called.
Expired == SessionsOf(acct.before.db, acct.user)

\* C17: after expire_all_of_user(u) every session of u has the stored flag
\* set and no cache entry older than that, so that from_id without
\* include_dead returns None for it; the rows and cache entries of the
\* other users' sessions are as they were.
C17_ExpireAll ==
    (acct # None /\ acct.t = "expire_all") =>
        \A h \in SessionIds :
            IF h \in Expired
            THEN /\ session_db[h].v.expired
                 /\ \/ session_cache[h] = None
                    \/ session_cache[h] = Dict(session_db[h].v)
                 /\ session_from_id(session_cache, session_db, h,
                                    FALSE).obj = None
            ELSE /\ session_db[h] = acct.before.db[h]
                 /\ session_cache[h] = acct.before.cache[h]

\* C17 witness: expire_all_of_user(u) ran while one live session of u was
\* cached and another was not, and another user had a session.
C17_Witness ==
    /\ acct # None
    /\ acct.t = "expire_all"
    /\ \E h, g \in Expired :
          /\ acct.before.cache[h] # None
          /\ ~acct.before.cache[h].v.expired
          /\ acct.before.cache[g] = None
          /\ ~acct.before.db[g].v.expired
    /\ \E h \in SessionIds \ Expired : acct.before.db[h] # None

\* C18: the id Session.new returns is one of its draws, every draw before
\* it collided with a row, no row had the id, and every session that was
\* there is as it was.
C18_NewSessionId ==
    (acct # None /\ acct.t = "new") =>
        /\ \E i \in DOMAIN acct.draws :
              /\ acct.draws[i] = acct.id
              /\ \A j \in 1..(i - 1) : acct.before.db[acct.draws[j]] # None
        /\ acct.before.db[acct.id] = None
        /\ session_db[acct.id] = acct.result
        /\ acct.result.v.id = acct.id
        /\ \A h \in SessionIds :
              acct.before.db[h] # None => session_db[h] = acct.before.db[h]

\* C18 witness: Session.new returned after its first two draws collided
\* with two different rows.
C18_Witness ==
    /\ acct # None
    /\ acct.t = "new"
    /\ Len(acct.draws) > 2
    /\ acct.draws[1] # acct.draws[2]
    /\ acct.before.db[acct.draws[1]] # None
    /\ acct.before.db[acct.draws[2]] # None
    /\ acct.id = acct.draws[3]

(***************************************************************************)
(* Properties of the settings route.                                       *)
(***************************************************************************)
SettingsCall == acct # None /\ acct.t = "settings"

\* The request asked for a new password and succeeded.
PasswordChanged ==
    /\ SettingsCall
    /\ acct.new_password # None
    /\ acct.result.status = 200

\* C19: after a successful password change every session the affected user
\* had before it is expired, from_id without include_dead returning None
\* for it, and the sessions of the other users are as they were.
C19_PasswordChangeExpiresSessions ==
    PasswordChanged =>
        \A h \in SessionIds :
            IF h \in SessionsOf(acct.before.db, acct.user)
            THEN /\ session_db[h].v.expired
                 /\ session_from_id(session_cache, session_db, h,
                                    FALSE).obj = None
            ELSE /\ session_db[h] = acct.before.db[h]
                 /\ session_cache[h] = acct.before.cache[h]

\* C19 witness: a password was changed while the affected user had a live
\* session in the cache and another user had a live session.
C19_Witness ==
    /\ PasswordChanged
    /\ passhash[acct.user] # acct.before.passhash[acct.user]
    /\ \E h \in SessionsOf(acct.before.db, acct.user) :
          /\ acct.before.cache[h] # None
          /\ ~acct.before.cache[h].v.expired
    /\ \E h \in SessionIds \ SessionsOf(acct.before.db, acct.user) :
          /\ acct.before.db[h] # None
          /\ ~acct.before.db[h].v.expired

\* The request presented an existing password that does not match the
\* stored hash of the user it is about.
WrongExistingPassword ==
    /\ SettingsCall
    /\ acct.user # 0
    /\ acct.existing_password.t = "str"
    /\ acct.before.passhash[acct.user] #
            generate_password_hash(acct.existing_password.v)

\* The request is a password change the requester is permitted to make.
PermittedPasswordChange ==
    /\ SettingsCall
    /\ acct.new_password # None
    /\ acct.requester # Anonymous
    /\ has_permission(acct.requester, "edit_settings")
    /\ has_permission(acct.requester, "change_password")

\* C20: a request that presents an existing password that does not match
\* the stored hash leaves the password hashes and the sessions as they
\* were, and a permitted password change that does so fails with 401
\* 'Invalid existing password.'.
C20_WrongExistingPassword ==
    WrongExistingPassword =>
        /\ passhash = acct.before.passhash
        /\ session_db = acct.before.db
        /\ session_cache = acct.before.cache
        /\ PermittedPasswordChange =>
              acct.result = _401Exception("Invalid existing password.")

\* C20 witness: a permitted password change presented the wrong existing
\* password while the user had a live session.
C20_Witness ==
    /\ WrongExistingPassword
    /\ PermittedPasswordChange
    /\ acct.result.status = 401
    /\ \E h \in SessionsOf(acct.before.db, acct.user) :
          ~acct.before.db[h].v.expired

\* The requester holds what changing another user's password takes and the
\* request changes the password of another user.
ModeratedPasswordChange ==
    /\ PermittedPasswordChange
    /\ has_permission(acct.requester, "moderate_users")
    /\ acct.user # 0
    /\ acct.user # acct.requester

\* C21: a permitted change of another user's password succeeds without the
\* requester presenting that user's existing password.
C21_ModeratorSkipsCheck ==
    (/\ ModeratedPasswordChange
     /\ acct.existing_password.t = "str" =>
            acct.before.passhash[acct.user] #
                generate_password_hash(acct.existing_password.v)) =>
        /\ acct.result.status = 200
        /\ passhash[acct.user] = generate_password_hash(acct.new_password.v)

(***************************************************************************)
(* Properties of the registrations.                                        *)
(***************************************************************************)
\* The code of the registrant's request names an invite that has no invitee
\* and was sent less than INVITE_LIFETIME seconds before the check.
UsableCode(p) ==
    /\ reg[p].code \in InviteCodes
    /\ invites[reg[p].code].v.invitee_id = 0
    /\ reg[p].time - invites[reg[p].code].v.time_sent < INVITE_LIFETIME

\* The registrant's request went through the invite check of a site that
\* requires codes.
InviteChecked(p) == reg[p].pc # "idle" /\ require_invite_code

\* C22: on a site that requires codes a registration gets past the invite
\* check exactly with a code that exists, has no invitee and was sent less
\* than INVITE_LIFETIME seconds ago; a supplied code that fails is refused
\* with a message naming it, a missing one with 'An invite code is required
\* for registration.'.
C22_InviteCheck ==
    \A p \in Registrants :
        InviteChecked(p) =>
            /\ reg[p].invited.status = 200 <=> UsableCode(p)
            /\ (~UsableCode(p) /\ reg[p].code # "") =>
                  reg[p].result = APIException(
                        <<reg[p].code, "is not a valid invite code.">>)
            /\ reg[p].code = "" =>
                  reg[p].result = APIException(
                        <<"An invite code is required for registration.">>)

\* C22 witness: the same invite was accepted INVITE_LIFETIME - 1 seconds
\* after it was sent and refused INVITE_LIFETIME + 1 seconds after.
C22_Witness ==
    \E p, q \in Registrants :
        /\ InviteChecked(p)
        /\ InviteChecked(q)
        /\ reg[p].code = "code-1"
        /\ reg[q].code = "code-1"
        /\ reg[p].time - invites["code-1"].v.time_sent = INVITE_LIFETIME - 1
        /\ reg[q].time - invites["code-1"].v.time_sent = INVITE_LIFETIME + 1
        /\ reg[p].invited.status = 200
        /\ reg[q].result.status = 400

\* The registrant's request created a user.
Registered(p) == reg[p].pc = "done" /\ reg[p].result.status = 200

\* C23: a successful registration with an invite code sets the invitee of
\* the invite to the new user.
C23_InviteRedeemedOnce ==
    \A p \in Registrants :
        (Registered(p) /\ require_invite_code) =>
            invites[reg[p].code].v.invitee_id = reg[p].result.id

\* C24: a registration whose username equals another user's ignoring case
\* ends with a user-facing Invalid Input failure, never with the storage
\* error, and the users table holds no two such usernames.
C24_DuplicateUsername ==
    /\ \A p \in Registrants :
          reg[p].pc = "done" => reg[p].result.status \in {200, 400}
    /\ \A i, j \in DOMAIN reg_users :
          lower(reg_users[i].username) = lower(reg_users[j].username)
              => i = j


(***************************************************************************)
(* Properties of the forum threads and subscriptions.                      *)
(***************************************************************************)
\* The last request was a DELETE /forums/threads/<id> that succeeded.
ThreadDeleted == fres.op = "delete_thread" /\ fres.result.status = 200

\* The store part of a thread deletion: the thread and the posts that were
\* under it are soft-deleted.
SoftDeletedInStore ==
    ThreadDeleted =>
        /\ forum_threads[fres.id].v["deleted"]
        /\ \A p \in fres.under : forum_posts[p].v["deleted"]

\* A later ForumPost.from_id without include_dead of a post deleted with
\* its thread returns None.
DeletedPostAbsent ==
    (/\ fres.op = "post_from_id"
     /\ ~fres.include_dead
     /\ forum_posts[fres.id].v["deleted"]) => fres.obj = None

\* C25: after DELETE /forums/threads/<id> succeeds the thread and every post
\* under it are soft-deleted in the store, and a later from_id without
\* include_dead returns None for the thread and for each of its former
\* posts, cached before the deletion or not.
C25_DeletedThreadAbsent ==
    /\ SoftDeletedInStore
    /\ DeletedPostAbsent
    /\ (/\ fres.op = "thread_from_id"
        /\ ~fres.include_dead
        /\ forum_threads[fres.id].v["deleted"]) => fres.obj = None


\* The last request was a POST /forums/threads that created a thread.
ThreadCreated == fres.op = "create_thread" /\ fres.result.status = 200

Altered(method) ==
    /\ fres.op = "alter_thread_subscription"
    /\ fres.method = method
    /\ fres.user # Anonymous
    /\ has_permission(fres.user, "modify_forum_subscriptions")
    /\ forum_threads[fres.id] # None
    /\ ~forum_threads[fres.id].v["deleted"]

\* The subscription rows are those of before the request, but for the
\* caller's rows for the thread, of which there are now n.
RowsBut(n) ==
    thread_subscriptions =
        [fres.rows EXCEPT ![<<fres.user, fres.id>>] = n]

\* C27: POST /forums/threads/<id>/subscribe succeeds exactly when the caller
\* has no subscription to the live thread, and then creates one row; DELETE
\* succeeds exactly when a subscription exists, and then removes it; the
\* failures are Invalid Input (400) and change no row; no user ever has more
\* than one subscription row for a thread.
C27_AlterSubscription ==
    /\ Altered("POST") =>
          IF fres.rows[<<fres.user, fres.id>>] = 0
          THEN fres.result.status = 200 /\ RowsBut(1)
          ELSE fres.result.status = 400 /\ thread_subscriptions = fres.rows
    /\ Altered("DELETE") =>
          IF fres.rows[<<fres.user, fres.id>>] > 0
          THEN fres.result.status = 200 /\ RowsBut(0)
          ELSE fres.result.status = 400 /\ thread_subscriptions = fres.rows
    /\ \A k \in DOMAIN thread_subscriptions : thread_subscriptions[k] <= 1

\* A subscription that a POST or the fan-out created was removed by a
\* DELETE.
C27_Witness ==
    /\ Altered("DELETE")
    /\ fres.result.status = 200
    /\ fres.rows[<<fres.user, fres.id>>] = 1
    /\ thread_subscriptions[<<fres.user, fres.id>>] = 0

\* A POST for a thread the caller is subscribed to was refused.
AlreadySubscribed ==
    /\ Altered("POST")
    /\ fres.result.status = 400

(***************************************************************************)
(* Properties of the listings.                                             *)
(***************************************************************************)
\* The limit the call works with: the one passed, 50 when only a page is
\* passed, and 0 for none.
LimitOf(call) ==
    IF call.limit # None THEN call.limit.v
    ELSE IF call.page # None THEN DefaultLimit
    ELSE 0

\* ids[(page - 1) * limit:] of the call, the whole id list without a page.
Candidates(call) ==
    IF call.page = None THEN call.ids
    ELSE Slice(call.ids, (call.page.v - 1) * LimitOf(call))

\* What from_id resolves the id to when the call starts.
Resolved(call, id) ==
    Lookup(call.before, many_db, id, call.include_dead).out.obj

\* The candidates that from_id resolves and whose required properties are
\* all truthy, in the order of the id list.
Wanted(call) ==
    LET Test(id) ==
            /\ Resolved(call, id) # None
            /\ \A k \in DOMAIN call.required_properties :
                  TruthyProperty(Resolved(call, id).v,
                                 call.required_properties[k])
    IN  SelectSeq(Candidates(call), Test)

\* The first n items of the sequence, all of them for n = 0.
FirstOf(seq, n) == IF n = 0 THEN seq ELSE SubSeq(seq, 1, Min(n, Len(seq)))

\* C28: get_many returns, in the order of the id list, the first `limit`
\* entities among ids[(page-1)*limit:] that from_id resolves (live ones only
\* unless include_dead) and whose required properties are all truthy; the
\* skipped ids do not count against the limit, the result is never longer
\* than the limit, and the limit is 50 when only a page is given.
C28_GetMany ==
    mret # None =>
        /\ [k \in 1..Len(mret.models) |-> mret.models[k].v["id"]]
              = FirstOf(Wanted(mret), LimitOf(mret))
        /\ \A k \in 1..Len(mret.models) :
              /\ mret.models[k] = Resolved(mret, mret.models[k].v["id"])
              /\ mret.include_dead \/ ~mret.models[k].v["deleted"]
        /\ LimitOf(mret) # 0 => Len(mret.models) <= LimitOf(mret)
        /\ (mret.page # None /\ mret.limit = None) =>
              Len(mret.models) <= DefaultLimit

\* A page was asked for without a limit; the first id of the page was
\* skipped, and more than 50 of its ids were wanted: 50 were returned.
C28_Witness ==
    /\ mret # None
    /\ mret.page # None
    /\ mret.limit = None
    /\ Len(Wanted(mret)) > DefaultLimit
    /\ Len(mret.models) = DefaultLimit
    /\ mret.models[1].v["id"] # Candidates(mret)[1]

\* A listing with a limit of its own skipped ids and returned that many.
SkippedWithinLimit ==
    /\ mret # None
    /\ mret.limit # None
    /\ Len(mret.models) = mret.limit.v
    /\ mret.models[1].v["id"] # Candidates(mret)[1]

(***************************************************************************)
(* Properties of the serializer's nested gate.                             *)
(***************************************************************************)
\* The requester holds the field's permission, or the field needs none, or
\* the field allows self access and the object is the requester's.
MaySee(name) ==
    \/ serializer[name].permission = ""
    \/ Holds(ser.user, serializer[name].permission)
    \/ (serializer[name].self_access /\ ser.user # Anonymous
            /\ ser.obj.user_id = ser.user)

\* The output carries a value for the field.
Emitted(name) == ser.out # None /\ ser.out.v[name] # None

\* The field of the object holds a value of its own, which get_value
\* returns as it is.
HoldsValue(name) == ser.obj[name].t = "scalar"

\* The gate of the claim: the field's nested setting is True, or the caller
\* did not ask for nested mode, or the field's name is in the caller's
\* tuple.
ListedGate(name) ==
    \/ serializer[name].nested = NBool(TRUE)
    \/ ser.nested = NBool(FALSE)
    \/ (ser.nested.t = "tuple" /\ name \in ser.nested.names)

\* The gate with the tuple as a filter: the caller did not ask for nested
\* mode, or the field's nested setting is True and the field's name is in
\* the caller's tuple when one was passed.
FilterGate(name) ==
    \/ ser.nested = NBool(FALSE)
    \/ /\ serializer[name].nested = NBool(TRUE)
       /\ ser.nested.t = "tuple" => name \in ser.nested.names

\* C29: a declared field is emitted exactly when the requester may see it
\* and the nested gate passes, the gate passing when the field's nested
\* setting is True, or the caller did not request nested mode, or the
\* field's name is in the tuple passed by the caller.
C29_ListedGate ==
    ser # None =>
        \A name \in Fields :
            /\ Emitted(name) => MaySee(name) /\ ListedGate(name)
            /\ (MaySee(name) /\ ListedGate(name) /\ HoldsValue(name)) =>
                  Emitted(name)

\* C29 as the code has it: a declared field is emitted exactly when the
\* requester may see it and the caller did not request nested mode, or the
\* field's nested setting is True and, when the caller passed a tuple, the
\* field's name is in it.
C29_FilterGate ==
    ser # None =>
        \A name \in Fields :
            /\ Emitted(name) => MaySee(name) /\ FilterGate(name)
            /\ (MaySee(name) /\ FilterGate(name) /\ HoldsValue(name)) =>
                  Emitted(name)

\* The caller passed a tuple naming email only: email, whose nested setting
\* is True, is emitted, and inviter, whose nested setting is True as well
\* and which holds an object, is not.
C29_Witness ==
    /\ ser # None
    /\ ser.nested = NTuple({"email"})
    /\ serializer["email"].nested = NBool(TRUE)
    /\ serializer["inviter"].nested = NBool(TRUE)
    /\ MaySee("inviter")
    /\ ser.obj["inviter"] # None
    /\ Emitted("email")
    /\ ~Emitted("inviter")

(***************************************************************************)
(* Properties of the moderation.                                           *)
(***************************************************************************)
\* The column a field of the request is stored in, and the value the
\* column takes for a supplied value.
ColumnOf(field) == IF field = "password" THEN "passhash" ELSE field
StoredAs(field, value) ==
    IF field = "password" THEN generate_password_hash(value.v) ELSE value.v

\* The last request was a PUT /users/<id>/moderate that succeeded.
Moderated == mod # None /\ mod.result.status = 200

\* C30: PUT /users/<id>/moderate sets each supplied field among email,
\* password, uploaded, downloaded and invites of the target user to the
\* supplied value, for every value the schema accepts, and leaves the
\* fields that were not supplied as they were.
C30_ModerateSetsSupplied ==
    Moderated =>
        \A field \in ModerateFields :
            profile[mod.user_id][ColumnOf(field)] =
                IF mod.data[field] # None
                THEN StoredAs(field, mod.data[field])
                ELSE mod.before[mod.user_id][ColumnOf(field)]

\* What does hold: the truthy supplied values are stored, and the other
\* fields are left as they were.
TruthySuppliedStored ==
    Moderated =>
        \A field \in ModerateFields :
            profile[mod.user_id][ColumnOf(field)] =
                IF TruthyArgument(mod.data[field])
                THEN StoredAs(field, mod.data[field])
                ELSE mod.before[mod.user_id][ColumnOf(field)]

(***************************************************************************)
(* Properties of the cache counters.                                       *)
(***************************************************************************)
\* The counter the last Cache.inc worked on, before and after the call.
CounterBefore == inc_ret.before[lower_key(inc_ret.key)]
CounterAfter == counters[lower_key(inc_ret.key)]

\* The expiry a supplied timeout stands for: none for None and for 0.
ExpiryOf(timeout) == IF TruthyArgument(timeout) THEN timeout ELSE None

\* Cache.inc created the counter at delta with the timeout.
CreatedAtDelta ==
    /\ inc_ret.value = inc_ret.delta
    /\ CounterAfter = Counter(inc_ret.delta, ExpiryOf(inc_ret.timeout))

\* C31: Cache.inc(key, delta, timeout) creates an absent counter at delta
\* with the timeout applied, and leaves the expiry of a counter that was
\* there before the call as it was, whatever the counter's value.
C31_IncKeepsExpiry ==
    inc_ret # None =>
        /\ CounterBefore = None => CreatedAtDelta
        /\ CounterBefore # None =>
              /\ CounterAfter.value = CounterBefore.value + inc_ret.delta
              /\ CounterAfter.ttl = CounterBefore.ttl

\* The same, for counters that were absent or held a value other than 0.
IncKeepsExpiryOfNonZero ==
    inc_ret # None =>
        /\ CounterBefore = None => CreatedAtDelta
        /\ (CounterBefore # None /\ CounterBefore.value # 0) =>
              /\ CounterAfter.value = CounterBefore.value + inc_ret.delta
              /\ CounterAfter.ttl = CounterBefore.ttl

\* A counter at 0 with no expiry was incremented with a timeout.
ZeroCounterGotTimeout ==
    /\ inc_ret # None
    /\ CounterBefore = Counter(0, None)
    /\ CounterAfter.ttl # None

(***************************************************************************)
(* Properties of the forum models.                                         *)
(***************************************************************************)
\* The last call was of this classmethod or property.
Called(op) == bret # None /\ bret.op = op

\* The last call was of one of the two paginated listings.
Paginated ==
    bret # None
        /\ bret.op \in {"ForumThread.from_forum", "ForumPost.from_thread"}

\* The id list the last paginated call walks: the cached list when there
\* is one, else the list the store gives (a thread's posts by id, a
\* forum's threads by newest update).
ListedIds ==
    IF bret.op = "ForumThread.from_forum"
    THEN LET cached ==
                 bret.before[Format(Template("forums_threads_forums_", ""),
                                    PyNumber(bret.args[1]))]
         IN  IF Truthy(cached) THEN cached.v
             ELSE ThreadIdsOfForum(board, bret.args[1]).v
    ELSE OrderAsc(RowsWhere(board["ForumPost"],
                            LAMBDA q : q["thread_id"] = bret.args[1]),
                  [i \in BoardIds |-> i])

\* The rows the listing is to return over all of its pages: the rows of
\* the id list, without the soft-deleted ones unless they were asked for.
ListedRows ==
    LET table == IF bret.op = "ForumThread.from_forum"
                 THEN board["ForumThread"] ELSE board["ForumPost"]
        dead_too == bret.op = "ForumPost.from_thread" /\ bret.args[4]
        Kept(id) == table[id] # None /\ (dead_too \/ ~table[id].v["deleted"])
        ids == SelectSeq(ListedIds, Kept)
    IN  [i \in 1..Len(ids) |-> table[ids[i]]]

\* What the last paginated call returns for another page, all else equal.
PageOf(page) ==
    IF bret.op = "ForumThread.from_forum"
    THEN from_forum(bret.before, board, bret.args[1], page,
                    bret.args[3]).out
    ELSE from_thread(bret.before, board, bret.args[1], page, bret.args[3],
                     bret.args[4]).out

\* The pages from..to, one after the other.
RECURSIVE PagesInOrder(_, _)
PagesInOrder(from, to) ==
    IF from > to THEN <<>>
    ELSE PageOf(from).obj.v \o PagesInOrder(from + 1, to)

\* C32: the pages of ForumPost.from_thread and of ForumThread.from_forum,
\* taken in order for a fixed limit, return every live row of the id list
\* exactly once, the first page beginning with the first row (the first
\* page being page 0 or page 1).
C32_PagesCoverList ==
    Paginated =>
        \E first \in {0, 1} :
            LET last == first + Len(ListedIds)
            IN  /\ \A page \in first..last : PageOf(page).kind = "return"
                /\ PagesInOrder(first, last) = ListedRows

\* Every ForumPost.from_thread fails on the attribute, and so does a
\* ForumThread.from_forum that finds no id list in the cache.
ListingsRaise ==
    /\ Called("ForumPost.from_thread") =>
          bret.out = Raise("AttributeError")
    /\ (Called("ForumThread.from_forum")
            /\ ~Truthy(bret.before[
                   Format(Template("forums_threads_forums_", ""),
                          PyNumber(bret.args[1]))])) =>
          bret.out = Raise("AttributeError")

\* A ForumThread.from_forum that found the id list returned, for the page
\* it was asked, one entry for each of the ids page * limit + 2 up to
\* page * limit + 1 + limit of the list: the thread, or None for a deleted
\* one.
FromForumSlice ==
    (Called("ForumThread.from_forum") /\ bret.out.kind = "return") =>
        LET start == bret.args[2] * bret.args[3] + 1
            ids == SubSeq(ListedIds, start + 1,
                          Min(Len(ListedIds), start + bret.args[3]))
            Entry(id) == IF board["ForumThread"][id].v["deleted"]
                         THEN None ELSE board["ForumThread"][id]
        IN  bret.out.obj.v = [i \in 1..Len(ids) |-> Entry(ids[i])]

\* Page 0 of a cached id list came back without the list's first row.
FirstRowSkipped ==
    /\ Called("ForumThread.from_forum")
    /\ bret.args[2] = 0
    /\ bret.out.kind = "return"
    /\ \A i \in DOMAIN bret.out.obj.v :
          bret.out.obj.v[i] # board["ForumThread"][ListedIds[1]]

\* The forums of a category that are not soft-deleted, by position.
LiveForumsOf(category_id) ==
    LET ids == OrderAsc(
            RowsWhere(board["Forum"],
                      LAMBDA f : f["category_id"] = category_id
                                    /\ ~f["deleted"]),
            [i \in BoardIds |->
                IF board["Forum"][i] = None THEN 0
                ELSE board["Forum"][i].v["position"]])
    IN  [i \in 1..Len(ids) |-> board["Forum"][ids[i]]]

\* C33: Forum.from_category(c) returns exactly the live forums whose
\* category_id is c, in ascending position order, whether the id list was
\* cached or is computed from the store.
C33_FromCategory ==
    Called("Forum.from_category") =>
        bret.out = Return(List(LiveForumsOf(bret.args[1])))

\* What Forum.from_category found under its key before the call.
CategoryKeyBefore ==
    bret.before[Format(Template("forums_categories_", ""),
                       PyNumber(bret.args[1]))]

\* Forum.from_category returns the empty list when it has nothing to walk
\* (no cached value and no forum of the category in the store), and fails
\* in the lookup of the builtin id in every other case.
FromCategoryRaises ==
    Called("Forum.from_category") =>
        IF ~Truthy(CategoryKeyBefore)
              /\ RowsWhere(board["Forum"],
                           LAMBDA f : f["category_id"] = bret.args[1]) = {}
        THEN bret.out = Return(List(<<>>))
        ELSE bret.out = Raise("StatementError")

\* The thread of a forum with the newest post.
NewestThreadOf(forum_id) ==
    LET ordered == threads_by_last_updated(board, forum_id)
    IN  board["ForumThread"][ordered[Len(ordered)]]

\* C34: Forum.last_updated_thread returns the thread of the forum whose
\* most recent post is the newest of the forum, whether the thread's id is
\* read from the cache or computed from the store.
C34_LastUpdatedThread ==
    (Called("Forum.last_updated_thread")
        /\ threads_by_last_updated(board, bret.args[1]) # <<>>) =>
        bret.out = Return(NewestThreadOf(bret.args[1]))

\* Forum.last_updated_thread computed from the store returns the thread
\* with the oldest update, deleted or not; read from the cache it returns
\* the cached thread, or None for a deleted one.
LastUpdatedIsOldest ==
    (Called("Forum.last_updated_thread")
        /\ threads_by_last_updated(board, bret.args[1]) # <<>>) =>
        LET oldest == board["ForumThread"][
                threads_by_last_updated(board, bret.args[1])[1]]
            key == Format(Template("forums_", "_last_updated"),
                          PyNumber(bret.args[1]))
        IN  IF bret.before[key] = None
            THEN bret.out = Return(oldest)
            ELSE bret.out =
                    Return(IF oldest.v["deleted"] THEN None ELSE oldest)

\* The two keys are of different cached values: of two templates, or of
\* two ids of one template.
OtherKey(f, i, g, j) == f # g \/ i # j

\* C37: the key under which an entity's column mapping is stored is never
\* also the key of an id list, of a count, or of another entity type's
\* mapping, for any ids.
C37_KeysDisjoint ==
    \A key \in DOMAIN kv :
        \A f \in KeyFamilies, g \in KeyFamilies, i \in BoardIds,
           j \in BoardIds :
            (f.kind = "entity" /\ g # f
                /\ key = Format(f.template, PyNumber(i))) =>
                /\ key # Format(g.template, PyNumber(j))
                /\ key # cache_key_all

\* The only key two templates share is that of ForumCategory's mapping and
\* of Forum's id list of a category.
OnlyCategoryKeyShared ==
    \A f \in KeyFamilies, g \in KeyFamilies, i \in BoardIds, j \in BoardIds :
        (OtherKey(f, i, g, j)
            /\ Format(f.template, PyNumber(i))
                 = Format(g.template, PyNumber(j))) =>
            /\ {f.attr, g.attr} = {"__cache_key__", "__cache_key_of_category__"}
            /\ {f.class, g.class} = {"ForumCategory", "Forum"}
            /\ i = j

\* Forum.from_category read a category's column mapping as its id list.
MappingReadAsIdList ==
    Called("Forum.from_category") /\ IsDict(CategoryKeyBefore)

(***************************************************************************)
(* Properties of the password changes.                                     *)
(***************************************************************************)
\* No session of the user is live: each is expired in the store, and
\* from_id without include_dead returns None for it.
NoLiveSession(u) ==
    \A h \in SessionsOf(session_db, u) :
        /\ session_db[h].v.expired
        /\ session_from_id(session_cache, session_db, h, FALSE).obj = None

\* The last moderate request carried a password and succeeded.
ModeratedPassword ==
    /\ Moderated
    /\ TruthyArgument(mod.data.password)
    /\ profile[mod.user_id].passhash
         = generate_password_hash(mod.data.password.v)

\* C35: every operation that changes a user's password, the settings
\* password change and the moderate request that carries a password,
\* leaves that user with no live session.
C35_PasswordChangeEndsSessions ==
    /\ PasswordChanged => NoLiveSession(acct.user)
    /\ ModeratedPassword => NoLiveSession(mod.user_id)

\* The settings password change leaves the user with no live session.
SettingsEndsSessions == PasswordChanged => NoLiveSession(acct.user)

\* A moderate request set a password while the user had a live session.
ModeratedWithLiveSession == ModeratedPassword /\ ~NoLiveSession(mod.user_id)

(***************************************************************************)
(* Properties of the cache after a mutating handler.                       *)
(***************************************************************************)
\* The cached copy of a row is absent or holds the row's stored columns.
FreshOrAbsent(c, d, id) ==
    \/ c[id] = None
    \/ /\ IsDict(c[id])
       /\ \A col \in DOMAIN c[id].v : c[id].v[col] = getattr(d[id].v, col)

\* The next from_id of the row, dead rows included, returns the stored
\* columns.
NextLookupIsStored(c, d, id) ==
    LET r == from_id(c, d, id, TRUE, "", "False", Anonymous)
    IN  /\ r.out.obj # None
        /\ \A col \in Columns(cls) :
              getattr(r.out.obj.v, col) = getattr(d[id].v, col)

\* C36: after a mutating handler completes with no concurrent request (here
\* delete_thread, the handler whose entities the model caches), the cached
\* copy of every entity it changed is absent or equal to the stored row, so
\* that the next from_id of the entity returns the new values.
C36_CacheFollowsStore ==
    ThreadDeleted =>
        /\ FreshOrAbsent(thread_cache, forum_threads, fres.id)
        /\ NextLookupIsStored(thread_cache, forum_threads, fres.id)
        /\ \A p \in fres.under :
              /\ FreshOrAbsent(post_cache, forum_posts, p)
              /\ NextLookupIsStored(post_cache, forum_posts, p)

\* The posts' part: the cached copy of every post deleted with the thread
\* is absent, and the next from_id returns the deleted row.
DeletedPostsFollowStore ==
    ThreadDeleted =>
        \A p \in fres.under :
            /\ post_cache[p] = None
            /\ NextLookupIsStored(post_cache, forum_posts, p)

\* delete_thread left the thread in the cache as it was before deletion.
StaleThreadCached ==
    /\ ThreadDeleted
    /\ IsDict(thread_cache[fres.id])
    /\ ~thread_cache[fres.id].v["deleted"]
    /\ forum_threads[fres.id].v["deleted"]

(***************************************************************************)
(* Properties of from_query.                                               *)
(***************************************************************************)
\* The last call was a from_query whose filter matches a row.
QueriedMatch ==
    /\ qret # None
    /\ qret.op = "from_query"
    /\ query_limit_first(found_db, qret.arg) # None

\* What the last from_query returns from the state it was called in, with
\* the winning id cached at the key (hit) and with the key empty (miss).
OnHit ==
    from_query(qret.before.cache,
               [qret.before.key EXCEPT ![qret.arg] =
                   PyNumber(query_limit_first(found_db, qret.arg).v["id"])],
               found_db, qret.arg).out
OnMiss ==
    from_query(qret.before.cache,
               [qret.before.key EXCEPT ![qret.arg] = None],
               found_db, qret.arg).out

\* C38: for an unchanged store, from_query returns the same result whether
\* the winning id is cached at the key or not, also when the row the filter
\* matches has its liveness flag set.
C38_HitEqualsMiss ==
    QueriedMatch => /\ OnHit = OnMiss
                    /\ qret.out = OnMiss

\* The same for a matched row that is live.
HitEqualsMissIfLive ==
    (QueriedMatch /\ ~is_dead(query_limit_first(found_db, qret.arg).v)) =>
        /\ OnHit = OnMiss
        /\ qret.out = OnMiss

\* For a matched row that is soft-deleted, the miss returns the row and
\* the hit returns None.
DeadRowOnlyOnMiss ==
    (QueriedMatch /\ is_dead(query_limit_first(found_db, qret.arg).v)) =>
        /\ OnMiss = Return(query_limit_first(found_db, qret.arg))
        /\ OnHit = Return(None)

\* A from_query found the id of a soft-deleted row at its key.
DeadRowHit ==
    /\ QueriedMatch
    /\ qret.before.key[qret.arg] # None
    /\ is_dead(query_limit_first(found_db, qret.arg).v)

(***************************************************************************)
(* Properties of the pages of a listing.                                   *)
(***************************************************************************)
\* The last listing asked for a page from 1 up.
PageCall == mret # None /\ mret.page # None /\ mret.page.v >= 1

\* The ids of the models get_many returns for a page, all else as in the
\* last listing.
PageIds(page) ==
    LET models == get_many(mret.required_properties, mret.include_dead,
                           PyNumber(page), mret.limit).models
    IN  [k \in 1..Len(models) |-> models[k].v["id"]]

\* The ids of the whole list that from_id resolves and whose required
\* properties are all truthy, in the order of the list.
Eligible ==
    LET Test(id) ==
            /\ Resolved(mret, id) # None
            /\ \A k \in DOMAIN mret.required_properties :
                  TruthyProperty(Resolved(mret, id).v,
                                 mret.required_properties[k])
    IN  SelectSeq(mret.ids, Test)

\* The pages from..to of the last listing, one after the other.
RECURSIVE PagesOfListing(_, _)
PagesOfListing(from, to) ==
    IF from > to THEN <<>>
    ELSE PageIds(from) \o PagesOfListing(from + 1, to)

\* C39: for a fixed id list, limit and filter arguments, page p and page
\* p + 1 of get_many share no entity, and the pages 1..n one after the
\* other hold every eligible entity exactly once, also when ids of the list
\* resolve to dead or filtered-out rows.
C39_PagesPartition ==
    PageCall =>
        /\ ListToSet(PageIds(mret.page.v))
              \cap ListToSet(PageIds(mret.page.v + 1)) = {}
        /\ PagesOfListing(1, (Len(mret.ids) + LimitOf(mret) - 1)
                                 \div LimitOf(mret)) = Eligible

\* Two pages that follow each other share no entity when every id of the
\* list is eligible.
PagesDisjointIfAllEligible ==
    (PageCall /\ Eligible = mret.ids) =>
        ListToSet(PageIds(mret.page.v))
            \cap ListToSet(PageIds(mret.page.v + 1)) = {}

\* A page skipped ids and returned entities that the next page returns
\* too.
PagesOverlap ==
    /\ PageCall
    /\ Eligible # mret.ids
    /\ ListToSet(PageIds(mret.page.v))
          \cap ListToSet(PageIds(mret.page.v + 1)) # {}

(***************************************************************************)
(* Properties of the override rows after a change.                         *)
(***************************************************************************)
\* The override rows of the user that survive the deletions of the change.
Surviving == DOMAIN DeleteRows(chg.before.rows, chg.checked.delete)

\* C40: for every change map that check_permissions accepts, applying its
\* lists never leaves two override rows for one (user, permission): no
\* permission is in both add and ungrant, and no permission of add or of
\* ungrant has an override row that survives the deletions.
C40_OneOverridePerPermission ==
    Accepted =>
        /\ ListToSet(chg.checked.add) \cap ListToSet(chg.checked.ungrant) = {}
        /\ (ListToSet(chg.checked.add) \cup ListToSet(chg.checked.ungrant))
              \cap Surviving = {}

\* The same for the maps that revoke no permission that is already
\* revoked: an accepted map collides with a surviving row only by asking
\* false for a class permission that has a revoke row.
CollisionOnlyOnRevokedAgain ==
    Accepted =>
        /\ ListToSet(chg.checked.add) \cap ListToSet(chg.checked.ungrant) = {}
        /\ ListToSet(chg.checked.add) \cap Surviving = {}
        /\ ListToSet(chg.checked.ungrant) \cap Surviving
              = {p \in Requested(FALSE) : InUserClass(p) /\ HadRevoke(p)}

\* An accepted map asked false for a class permission that was revoked
\* already, and the insert of its second revoke row collided.
RevokedTwice ==
    /\ Accepted
    /\ \E p \in Requested(FALSE) : InUserClass(p) /\ HadRevoke(p)
    /\ chg.kind # "success"

=============================================================================
